---- MODULE Spec2Model ----
(***************************************************************************)
(* Model of python/mod_nvcv/Image.cpp: the identity key of an image, the   *)
(* normalisation of external buffers into plane descriptors, the inference *)
(* of an image format, and the creation / wrapping entry points that go    *)
(* through the shared object cache.                                        *)
(***************************************************************************)
EXTENDS Integers, Sequences, FiniteSets, TLC

VARIABLES
    img,        \* every Image object constructed so far, indexed by identity
    cache,      \* identities registered in Cache::Instance()
    holders,    \* identity -> number of caller handles (shared_ptr held by the script)
    inflight,   \* identity -> number of submitted, not yet completed device operations
    pc,         \* thread -> position inside Image::Create
    vcont,      \* thread -> the vector Cache::fetch returned to a running Image::Create
    req,        \* thread -> arguments of the running Image::Create
    last,       \* the most recently finished entry-point call and what it returned
    flog,       \* the most recent Cache::fetch with a wrapper key and what changed since
    call        \* arguments and result of a pure-function call (key / buffer analysis)

vars == <<img, cache, holders, inflight, pc, vcont, req, last, flog, call>>

cacheVars == <<img, cache, holders, inflight, pc, vcont, req, last, flog>>

(***************************************************************************)
(* Bounds of the model.                                                    *)
(***************************************************************************)
\* image objects constructed in one behaviour
MaxImages == 3
\* device operations submitted to the stream and not yet completed
MaxInFlight == 1

Threads == {"t1", "t2"}

(***************************************************************************)
(* Element types and image formats (nvcv::DataType, nvcv::ImageFormat).    *)
(* A plane packing is the bit depth of its channels and their number.      *)
(***************************************************************************)
Packing(bits, nch) == [bits |-> bits, nch |-> nch]

DataType(kind, bits, nch) == [kind |-> kind, bits |-> bits, nch |-> nch]

ImageFormat(model, css, kind, swizzle, packing) ==
    [model |-> model, css |-> css, kind |-> kind, swizzle |-> swizzle, packing |-> packing]

FMT_NONE == ImageFormat("NONE", "NONE", "NONE", "0000", <<>>)

FMT_U8 == ImageFormat("UNDEFINED", "NONE", "UNSIGNED", "X000", <<Packing(8, 1)>>)

FMT_2F32 == ImageFormat("UNDEFINED", "NONE", "FLOAT", "XY00", <<Packing(32, 2)>>)

FMT_RGB8 == ImageFormat("RGB", "NONE", "UNSIGNED", "XYZ1", <<Packing(8, 3)>>)

FMT_RGBA8 == ImageFormat("RGB", "NONE", "UNSIGNED", "XYZW", <<Packing(8, 4)>>)

\* as FMT_RGB8 but for the colour model
FMT_HSV8 == ImageFormat("HSV", "NONE", "UNSIGNED", "XYZ1", <<Packing(8, 3)>>)

FMT_NV12_ER == ImageFormat("YCbCr", "420", "UNSIGNED", "XYZ0", <<Packing(8, 1), Packing(8, 2)>>)

\* ImageFormat::planeNumChannels(p), p counted from 0; a plane the format lacks has none
planeNumChannels(fmt, p) ==
    IF p + 1 <= Len(fmt.packing) THEN fmt.packing[p + 1].nch ELSE 0

\* ImageFormat::numPlanes()
numPlanes(fmt) == Len(fmt.packing)

(***************************************************************************)
(* Image::Key                                                              *)
(***************************************************************************)
Key(isWrapper, size, format) == [isWrapper |-> isWrapper, size |-> size, format |-> format]

\* Key{}: the key of every wrapper
WrapperKey == Key(TRUE, <<0, 0>>, FMT_NONE)

\* Key{size, fmt}
SizedKey(size, format) == Key(FALSE, size, format)

\* a plausible slip: the xor branch dropped, so a wrapper key matches a sized one
\* that carries the same fields
doIsCompatible_NoXor(this, that) ==
    IF this.isWrapper /\ that.isWrapper
    THEN TRUE
    ELSE this.size = that.size /\ this.format = that.format

\* a plausible slip: sized keys compared by size alone
doIsCompatible_SizeOnly(this, that) ==
    IF this.isWrapper /\ that.isWrapper
    THEN TRUE
    ELSE IF this.isWrapper \/ that.isWrapper
         THEN FALSE
         ELSE this.size = that.size

doIsCompatible(this, that) ==
    IF this.isWrapper /\ that.isWrapper
    THEN TRUE
    ELSE IF this.isWrapper \/ that.isWrapper
         THEN FALSE
         ELSE <<this.size, this.format>> = <<that.size, that.format>>

(***************************************************************************)
(* External buffers (DLTensor).  shape and strides are counted in elements *)
(* as DLPack gives them; data is the address of the first element.         *)
(***************************************************************************)
DLTensor(ndim, shape, strides, kind, bits, lanes, data, devType, devId) ==
    [ndim |-> ndim, shape |-> shape, strides |-> strides, kind |-> kind, bits |-> bits,
     lanes |-> lanes, data |-> data, devType |-> devType, devId |-> devId]

\* ToNVCVDataType(tensor.dtype)
ToNVCVDataType(tensor) == DataType(tensor.kind, tensor.bits, tensor.lanes)

elemStrideBytes(tensor) == (tensor.bits * tensor.lanes + 7) \div 8

\* a plausible slip: the packed/planar threshold off by one
InferLayout_Below4(fmt, p, trailing) ==
    IF fmt # FMT_NONE
    THEN IF planeNumChannels(fmt, p) = trailing THEN "NHWC" ELSE "NCHW"
    ELSE IF trailing < 4 THEN "NHWC" ELSE "NCHW"

\* layout of a rank 3 or 4 buffer: p is the index of the buffer in the list
InferLayout(fmt, p, trailing) ==
    IF fmt # FMT_NONE
    THEN IF planeNumChannels(fmt, p) = trailing THEN "NHWC" ELSE "NCHW"
    ELSE IF trailing <= 4 THEN "NHWC" ELSE "NCHW"

\* the switch on tensor.ndim: 4d shape, 4d byte strides and layout, whatever the rank
Extract4d(tensor, fmt, p) ==
    LET e  == elemStrideBytes(tensor)
        n  == tensor.ndim
        sh == tensor.shape
        st == tensor.strides
    IN  CASE n = 1 ->
                [err |-> "none", layout |-> "NCHW",
                 shape |-> <<1, 1, 1, sh[1]>>,
                 strides |-> <<st[1] * e, st[1] * e, st[1] * e, st[1] * e>>]
          [] n = 2 ->
                [err |-> "none", layout |-> "NCHW",
                 shape |-> <<1, 1, sh[1], sh[2]>>,
                 strides |-> <<sh[1] * st[1] * e, sh[1] * st[1] * e, st[1] * e, st[2] * e>>]
          [] n \in {3, 4} ->
                LET shape == <<IF n = 3 THEN 1 ELSE sh[n - 3], sh[n - 2], sh[n - 1], sh[n]>>
                    s1    == st[n - 2] * e
                    s2    == st[n - 1] * e
                    s3    == st[n] * e
                    s0    == IF n = 3 THEN shape[2] * s1 ELSE st[n - 3]
                IN  [err |-> "none", layout |-> InferLayout(fmt, p, shape[4]),
                     shape |-> shape, strides |-> <<s0, s1, s2, s3>>]
          [] OTHER ->
                [err |-> "InvalidArgument", layout |-> "", shape |-> <<>>, strides |-> <<>>]

\* nvcv::TensorShapeInfoImagePlanar of a 4d shape with layout NCHW or NHWC
TensorShapeInfoImagePlanar(shape, layout) ==
    IF layout = "NHWC"
    THEN [isChannelLast |-> TRUE, numSamples |-> shape[1], numChannels |-> shape[4],
          numRows |-> shape[2], numCols |-> shape[3],
          idxSample |-> 1, idxChannel |-> 4, idxHeight |-> 2, idxWidth |-> 3]
    ELSE [isChannelLast |-> FALSE, numSamples |-> shape[1], numChannels |-> shape[2],
          numRows |-> shape[3], numCols |-> shape[4],
          idxSample |-> 1, idxChannel |-> 2, idxHeight |-> 3, idxWidth |-> 4]

NoBufferImageInfo ==
    [numPlanes |-> 0, size |-> <<0, 0>>, numChannels |-> 0, isChannelLast |-> FALSE,
     planeStride |-> 0, rowStride |-> 0, dtype |-> DataType("NONE", 0, 0), data |-> 0]

\* a plausible slip: a stride of zero passes the check of the outer strides
BufferInfoOf_ZeroStrideOk(tensor, strides, infoShape) ==
    IF strides[1] < 0 \/ strides[2] < 0 \/ strides[3] < 0
    THEN [err |-> "InvalidArgument", info |-> NoBufferImageInfo]
    ELSE IF strides[4] # elemStrideBytes(tensor)
    THEN [err |-> "InvalidArgument", info |-> NoBufferImageInfo]
    ELSE IF ~infoShape.isChannelLast
            /\ strides[infoShape.idxHeight] # elemStrideBytes(tensor) * infoShape.numCols
    THEN [err |-> "InvalidArgument", info |-> NoBufferImageInfo]
    ELSE [err |-> "none",
          info |-> [numPlanes     |-> IF infoShape.isChannelLast
                                      THEN infoShape.numSamples
                                      ELSE infoShape.numChannels,
                    size          |-> <<infoShape.numCols, infoShape.numRows>>,
                    numChannels   |-> infoShape.numChannels,
                    isChannelLast |-> infoShape.isChannelLast,
                    planeStride   |-> strides[IF infoShape.isChannelLast
                                              THEN infoShape.idxSample
                                              ELSE infoShape.idxChannel],
                    rowStride     |-> strides[infoShape.idxHeight],
                    dtype         |-> ToNVCVDataType(tensor),
                    data          |-> tensor.data]]

\* the stride validation and the descriptor of one buffer whose 4d byte strides
\* and planar shape information are known
BufferInfoOf(tensor, strides, infoShape) ==
    LET e         == elemStrideBytes(tensor)
        rowStride == strides[infoShape.idxHeight]
    IN  IF strides[1] <= 0 \/ strides[2] <= 0 \/ strides[3] <= 0
        THEN [err |-> "InvalidArgument", info |-> NoBufferImageInfo]
        ELSE IF strides[4] # e
        THEN [err |-> "InvalidArgument", info |-> NoBufferImageInfo]
        ELSE IF ~infoShape.isChannelLast /\ rowStride # e * infoShape.numCols
        THEN [err |-> "InvalidArgument", info |-> NoBufferImageInfo]
        ELSE [err |-> "none",
              info |-> [numPlanes     |-> IF infoShape.isChannelLast
                                          THEN infoShape.numSamples
                                          ELSE infoShape.numChannels,
                        size          |-> <<infoShape.numCols, infoShape.numRows>>,
                        numChannels   |-> infoShape.numChannels,
                        isChannelLast |-> infoShape.isChannelLast,
                        planeStride   |-> strides[IF infoShape.isChannelLast
                                                  THEN infoShape.idxSample
                                                  ELSE infoShape.idxChannel],
                        rowStride     |-> rowStride,
                        dtype         |-> ToNVCVDataType(tensor),
                        data          |-> tensor.data]]

\* the rest of the loop body once the switch on the rank gave d
ExtractChecked(tensor, d) ==
    IF d.err # "none"
    THEN [err |-> d.err, info |-> NoBufferImageInfo]
    ELSE BufferInfoOf(tensor, d.strides, TensorShapeInfoImagePlanar(d.shape, d.layout))

\* the body of the loop over the buffers, up to the channel accounting
ExtractOne(tensor, fmt, p) == ExtractChecked(tensor, Extract4d(tensor, fmt, p))

RECURSIVE ExtractFrom(_, _, _, _, _)
\* a plausible slip: the limit of the channel accounting off by one
ExtractCount_FivePass(tensorList, fmt, p, curChannel, bufferInfoList, r) ==
    IF r.err # "none"
    THEN [err |-> r.err, list |-> <<>>]
    ELSE IF curChannel + r.info.numPlanes * r.info.numChannels > 5
    THEN [err |-> "InvalidArgument", list |-> <<>>]
    ELSE ExtractFrom(tensorList, fmt, p + 1,
                     curChannel + r.info.numPlanes * r.info.numChannels,
                     Append(bufferInfoList, r.info))

\* the channel accounting of buffer p, whose descriptor is r, and the rest of the loop
ExtractCount(tensorList, fmt, p, curChannel, bufferInfoList, r) ==
    IF r.err # "none"
    THEN [err |-> r.err, list |-> <<>>]
    ELSE IF curChannel + r.info.numPlanes * r.info.numChannels > 4
    THEN [err |-> "InvalidArgument", list |-> <<>>]
    ELSE ExtractFrom(tensorList, fmt, p + 1,
                     curChannel + r.info.numPlanes * r.info.numChannels,
                     Append(bufferInfoList, r.info))

\* the loop over the buffers from index p on, curChannel channels counted so far
ExtractFrom(tensorList, fmt, p, curChannel, bufferInfoList) ==
    IF p >= Len(tensorList)
    THEN [err |-> "none", list |-> bufferInfoList]
    ELSE ExtractCount(tensorList, fmt, p, curChannel, bufferInfoList,
                      ExtractOne(tensorList[p + 1], fmt, p))

ExtractBufferImageInfo(tensorList, fmt) == ExtractFrom(tensorList, fmt, 0, 0, <<>>)

(***************************************************************************)
(* Format inference and assembly of the strided image data.                *)
(***************************************************************************)
\* the element type repacked to hold numChannels channels of the same bit depth
MakePackedType(dtype, numChannels) ==
    IF dtype.nch = numChannels
    THEN dtype
    ELSE DataType(dtype.kind, dtype.bits, numChannels)

RECURSIVE SumChannels(_)
SumChannels(planePixTypes) ==
    IF planePixTypes = <<>>
    THEN 0
    ELSE Head(planePixTypes).nch + SumChannels(Tail(planePixTypes))

\* MakeSwizzle(X, Y, Z, W) cut to the first n channels
SwizzleOfCount(n) ==
    CASE n = 1 -> "X000"
      [] n = 2 -> "XY00"
      [] n = 3 -> "XYZ0"
      [] OTHER -> "XYZW"

\* baseFormatList[numChannels - 1]
baseFormatList(numChannels) ==
    CASE numChannels = 1 -> FMT_U8
      [] numChannels = 2 -> FMT_2F32
      [] numChannels = 3 -> FMT_RGB8
      [] OTHER -> FMT_RGBA8

\* a plausible slip: the data kinds of the planes are not compared
InferImageFormat_AnyKind(planePixTypes) ==
    IF planePixTypes = <<>>
    THEN [err |-> "none", format |-> FMT_NONE]
    ELSE
    LET nPlanes     == Len(planePixTypes)
        packing     == [p \in 1..nPlanes |->
                            Packing(planePixTypes[p].bits, planePixTypes[p].nch)]
        numChannels == SumChannels(planePixTypes)
        dataKind    == planePixTypes[1].kind
    IN  IF FALSE
        THEN [err |-> "InvalidArgument", format |-> FMT_NONE]
        ELSE IF nPlanes = 1 \/ numChannels = nPlanes
        THEN LET baseFormat == baseFormatList(numChannels)
             IN  [err |-> "none",
                  format |-> ImageFormat(baseFormat.model, baseFormat.css, dataKind,
                                         baseFormat.swizzle, packing)]
        ELSE IF nPlanes = 2 /\ numChannels = 3
        THEN [err |-> "none",
              format |-> ImageFormat(FMT_NV12_ER.model, FMT_NV12_ER.css, dataKind,
                                     "XYZ0", packing)]
        ELSE [err |-> "none",
              format |-> ImageFormat(FMT_U8.model, FMT_U8.css, dataKind,
                                     SwizzleOfCount(numChannels), packing)]

InferImageFormat(planePixTypes) ==
    IF planePixTypes = <<>>
    THEN [err |-> "none", format |-> FMT_NONE]
    ELSE
    LET nPlanes     == Len(planePixTypes)
        packing     == [p \in 1..nPlanes |->
                            Packing(planePixTypes[p].bits, planePixTypes[p].nch)]
        numChannels == SumChannels(planePixTypes)
        dataKind    == planePixTypes[1].kind
    IN  IF \E p \in 1..nPlanes : planePixTypes[p].kind # planePixTypes[1].kind
        THEN [err |-> "InvalidArgument", format |-> FMT_NONE]
        ELSE IF nPlanes = 1 \/ numChannels = nPlanes
        THEN LET baseFormat == baseFormatList(numChannels)
             IN  [err |-> "none",
                  format |-> ImageFormat(baseFormat.model, baseFormat.css, dataKind,
                                         baseFormat.swizzle, packing)]
        ELSE IF nPlanes = 2 /\ numChannels = 3
        THEN [err |-> "none",
              format |-> ImageFormat(FMT_NV12_ER.model, FMT_NV12_ER.css, dataKind,
                                     "XYZ0", packing)]
        ELSE [err |-> "none",
              format |-> ImageFormat(FMT_U8.model, FMT_U8.css, dataKind,
                                     SwizzleOfCount(numChannels), packing)]

\* number of channels a swizzle selects
SwizzleNumChannels(swizzle) ==
    CASE swizzle \in {"X000"} -> 1
      [] swizzle \in {"XY00"} -> 2
      [] swizzle \in {"XYZ0", "XYZ1", "ZYX1"} -> 3
      [] swizzle \in {"XYZW", "ZYXW"} -> 4
      [] OTHER -> 0

\* nvcv::HasSameDataLayout: equality but for the colour interpretation
HasSameDataLayout(a, b) ==
    /\ a.kind = b.kind
    /\ a.packing = b.packing
    /\ SwizzleNumChannels(a.swizzle) = SwizzleNumChannels(b.swizzle)

\* ImageFormat::planeSize(imgSize, p), p counted from 0: chroma planes of a
\* 4:2:0 format have half the columns and half the rows, rounded up
planeSize(fmt, imgSize, p) ==
    IF p > 0 /\ fmt.css = "420"
    THEN <<(imgSize[1] + 1) \div 2, (imgSize[2] + 1) \div 2>>
    ELSE imgSize

ImagePlaneStrided(width, height, rowStride, basePtr) ==
    [width |-> width, height |-> height, rowStride |-> rowStride, basePtr |-> basePtr]

\* the planes one buffer contributes
PlanesOfBuffer(b) ==
    [p \in 1..b.numPlanes |->
        ImagePlaneStrided(b.size[1], b.size[2], b.rowStride, b.data + b.planeStride * (p - 1))]

\* the element types one buffer contributes
PlaneTypesOfBuffer(b) ==
    [p \in 1..b.numPlanes |->
        MakePackedType(b.dtype, IF b.isChannelLast THEN b.numChannels ELSE 1)]

RECURSIVE FlattenPlanes(_)
FlattenPlanes(bufferInfoList) ==
    IF bufferInfoList = <<>>
    THEN <<>>
    ELSE PlanesOfBuffer(Head(bufferInfoList)) \o FlattenPlanes(Tail(bufferInfoList))

RECURSIVE FlattenPlaneTypes(_)
FlattenPlaneTypes(bufferInfoList) ==
    IF bufferInfoList = <<>>
    THEN <<>>
    ELSE PlaneTypesOfBuffer(Head(bufferInfoList)) \o FlattenPlaneTypes(Tail(bufferInfoList))

NoImageData == [err |-> "InvalidArgument", format |-> FMT_NONE, planes |-> <<>>]

\* a plausible slip: only the width of the planes is checked
FillChecked_WidthOnly(finalFormat, planes) ==
    IF \E p \in 1..Len(planes) :
           planes[p].width
               # planeSize(finalFormat, <<planes[1].width, planes[1].height>>, p - 1)[1]
    THEN NoImageData
    ELSE [err |-> "none", format |-> finalFormat, planes |-> planes]

\* the check of the plane sizes against the final format, and the result
FillChecked(finalFormat, planes) ==
    IF \E p \in 1..Len(planes) :
           <<planes[p].width, planes[p].height>>
               # planeSize(finalFormat, <<planes[1].width, planes[1].height>>, p - 1)
    THEN NoImageData
    ELSE [err |-> "none", format |-> finalFormat, planes |-> planes]

\* a plausible slip: the inferred format is kept though one was declared
FillInferred_KeepInferred(fmt, planes, inferred) ==
    IF Len(planes) = 0
    THEN NoImageData
    ELSE IF inferred.err # "none"
    THEN NoImageData
    ELSE IF fmt # FMT_NONE /\ ~HasSameDataLayout(fmt, inferred.format)
    THEN NoImageData
    ELSE FillChecked(inferred.format, planes)

\* the part after the format was inferred from the planes
FillInferred(fmt, planes, inferred) ==
    IF Len(planes) = 0
    THEN NoImageData
    ELSE IF inferred.err # "none"
    THEN NoImageData
    ELSE IF fmt # FMT_NONE /\ ~HasSameDataLayout(fmt, inferred.format)
    THEN NoImageData
    ELSE FillChecked(IF fmt # FMT_NONE THEN fmt ELSE inferred.format, planes)

\* the part after the buffers were normalised into bufferInfoList
FillFrom(fmt, ext) ==
    IF ext.err # "none"
    THEN NoImageData
    ELSE FillInferred(fmt, FlattenPlanes(ext.list),
                      InferImageFormat(FlattenPlaneTypes(ext.list)))

FillNVCVImageBufferStrided(infos, fmt) == FillFrom(fmt, ExtractBufferImageInfo(infos, fmt))

\* the local inferredFormat while the call has not reached line 396
NotInferred == [err |-> "unreached", format |-> FMT_NONE]

\* the local inferredFormat of a call whose buffers were normalised into ext
InferredFrom(ext) ==
    IF ext.err # "none" \/ FlattenPlanes(ext.list) = <<>>
    THEN NotInferred
    ELSE InferImageFormat(FlattenPlaneTypes(ext.list))

(***************************************************************************)
(* The external buffers and creation requests the callers draw from.       *)
(***************************************************************************)
\* ExternalBuffer::dlTensor() of the device buffers known to the callers
Tensor(b) ==
    CASE b = "bHWC"  -> DLTensor(3, <<2, 2, 3>>, <<6, 3, 1>>, "UNSIGNED", 8, 1, 1000, "CUDA", 0)
      [] b = "bHW"   -> DLTensor(2, <<2, 4>>, <<4, 1>>, "UNSIGNED", 8, 1, 2000, "CUDA", 0)
      [] b = "bHW2"  -> DLTensor(2, <<2, 4>>, <<4, 1>>, "UNSIGNED", 8, 1, 3000, "CUDA", 1)
      [] b = "bBad"  -> DLTensor(3, <<3, 2, 5>>, <<10, 5, 1>>, "UNSIGNED", 8, 1, 4000, "CUDA", 0)
      [] b = "hHW"   -> DLTensor(2, <<2, 2>>, <<2, 1>>, "UNSIGNED", 8, 1, 5000, "CPU", 0)
      [] OTHER       -> DLTensor(2, <<2, 2>>, <<0, 1>>, "UNSIGNED", 8, 1, 6000, "CPU", 0)

TensorsOf(buffers) == [k \in 1..Len(buffers) |-> Tensor(buffers[k])]

\* argument lists of WrapExternalBufferVector
WrapVectorArgs == {<<"bHWC">>, <<"bHW">>, <<"bHW", "bHW2">>, <<"bBad">>}

\* argument lists of WrapExternalBufferMany
WrapManyArgs == {<<"bHW", "bHWC">>, <<"bHWC", "bBad">>}

\* argument lists of WrapExternalBufferMany where the fetches are observed
FetchManyArgs == {<<>>, <<"bHWC">>}

\* argument lists of CreateHostVector
CreateHostArgs == {<<"hHW">>, <<"hBadStride">>}

\* every list of buffers that is analysed as one image
BufferLists ==
    WrapVectorArgs \cup CreateHostArgs
        \cup {<<b>> : b \in {"bHWC", "bHW", "bHW2", "bBad", "hHW", "hBadStride"}}

CreateRequest(size, fmt, rowAlign) == [size |-> size, fmt |-> fmt, rowAlign |-> rowAlign]

\* arguments of Image::Create: rowAlign 0 asks for the default alignment
CreateArgs ==
    {CreateRequest(<<2, 2>>, FMT_U8, 0), CreateRequest(<<4, 2>>, FMT_U8, 0),
     CreateRequest(<<2, 2>>, FMT_RGBA8, 0),
     CreateRequest(<<2, 2>>, FMT_U8, 4), CreateRequest(<<2, 2>>, FMT_U8, 64)}

NoRequest == CreateRequest(<<0, 0>>, FMT_NONE, 0)

\* the strided data of device buffers
CreateNVCVImageDataCuda(infos, fmt) == FillNVCVImageBufferStrided(infos, fmt)

\* the strided data of host buffers
CreateNVCVImageDataHost(infos, fmt) == FillNVCVImageBufferStrided(infos, fmt)

\* CreateNVCVImageDataCuda of the buffer lists the callers pass without a format
CudaDataOf == [b \in BufferLists |-> CreateNVCVImageDataCuda(TensorsOf(b), FMT_NONE)]

\* CreateNVCVImageDataHost of the buffer lists the callers pass without a format
HostDataOf == [b \in BufferLists |-> CreateNVCVImageDataHost(TensorsOf(b), FMT_NONE)]

\* the strided data of the device buffers of a wrap call
CudaImageData(buffers, fmt) ==
    IF fmt = FMT_NONE /\ buffers \in BufferLists
    THEN CudaDataOf[buffers]
    ELSE CreateNVCVImageDataCuda(TensorsOf(buffers), fmt)

\* the strided data of the host buffers of a host creation
HostImageData(buffers, fmt) ==
    IF fmt = FMT_NONE /\ buffers \in BufferLists
    THEN HostDataOf[buffers]
    ELSE CreateNVCVImageDataHost(TensorsOf(buffers), fmt)

\* ImageData::size(): the size of plane 0
ImageDataSize(imgData) == <<imgData.planes[1].width, imgData.planes[1].height>>

(***************************************************************************)
(* Image objects.                                                          *)
(***************************************************************************)
\* Image::Image(size, fmt, rowAlign): m_key = Key{size, fmt}
OwnedImage(size, fmt, rowAlign) ==
    [isWrapper |-> FALSE, size |-> size, format |-> fmt, rowAlign |-> rowAlign,
     planes |-> <<>>, obj |-> <<>>, devType |-> "none"]

\* Image::Image(bufs, hostData, rowAlign): a device image with the size and format
\* of the host data, m_key = Key{m_impl.size(), m_impl.format()}
HostImage(hostData, rowAlign) ==
    OwnedImage(ImageDataSize(hostData), hostData.format, rowAlign)

\* an Image whose destructor has run
Destroyed ==
    [isWrapper |-> FALSE, size |-> <<0, 0>>, format |-> FMT_NONE, rowAlign |-> 0,
     planes |-> <<>>, obj |-> <<>>, devType |-> "destroyed"]

\* a plausible slip: the wrapped object is replaced but the image keeps the
\* strided data it had
setWrapData_StaleData(image, bufs, imgData) ==
    IF Len(bufs) > 1
       /\ \E i \in 2..Len(bufs) :
              \/ Tensor(bufs[i]).devType # Tensor(bufs[1]).devType
              \/ Tensor(bufs[i]).devId # Tensor(bufs[1]).devId
    THEN [ok |-> FALSE, image |-> [image EXCEPT !.devType = Tensor(bufs[1]).devType]]
    ELSE [ok |-> TRUE,
          image |-> [image EXCEPT !.devType = Tensor(bufs[1]).devType, !.obj = bufs]]

\* Image::setWrapData: ok is FALSE when it throws, image is the object afterwards
setWrapData(image, bufs, imgData) ==
    LET first   == Tensor(bufs[1])
        touched == [image EXCEPT !.devType = first.devType]
    IN  IF Len(bufs) > 1
           /\ \E i \in 2..Len(bufs) :
                  \/ Tensor(bufs[i]).devType # first.devType
                  \/ Tensor(bufs[i]).devId # first.devId
        THEN [ok |-> FALSE, image |-> touched]
        ELSE [ok |-> TRUE,
              image |-> [touched EXCEPT !.obj = bufs,
                                        !.size = ImageDataSize(imgData),
                                        !.format = imgData.format,
                                        !.planes = imgData.planes]]

\* Image::Image(bufs, imgData): m_key{} is the wrapper key
WrapperImage(bufs, imgData) ==
    setWrapData([isWrapper |-> TRUE, size |-> <<0, 0>>, format |-> FMT_NONE, rowAlign |-> 0,
                 planes |-> <<>>, obj |-> <<>>, devType |-> "none"],
                bufs, imgData)

\* Image::key()
KeyOf(image) ==
    IF image.isWrapper THEN WrapperKey ELSE SizedKey(image.size, image.format)

(***************************************************************************)
(* Cache::Instance(): a registry of shared references.  An item is in use  *)
(* while anything but the cache refers to it: a caller's handle, a stream  *)
(* that has work on it, or the result vector of a running fetch.           *)
(***************************************************************************)
Ids == 1..Len(img)

\* CacheItem::isInUse()
isInUse(i) ==
    \/ holders[i] > 0
    \/ inflight[i] > 0
    \/ \E t \in Threads : i \in vcont[t]

\* Cache::fetch(key): every matching item that is not in use
fetch(key) == {i \in cache : doIsCompatible(key, KeyOf(img[i])) /\ ~isInUse(i)}

\* Cache::removeAllNotInUseMatching(key): what it leaves in the registry
removeAllNotInUseMatching(key) == cache \ fetch(key)

\* the orders in which a vector may list the items of a set
Orders(S) ==
    {v \in [1..Cardinality(S) -> S] : \A a, b \in 1..Cardinality(S) : a # b => v[a] # v[b]}

OrdersOf == [S \in SUBSET (1..MaxImages) |-> Orders(S)]

\* the orders in which a fetched vector may list a set of items
VectorsOf(S) == OrdersOf[S]

(***************************************************************************)
(* Bookkeeping of what the callers observe.                                *)
(***************************************************************************)
\* the call that has just returned: the images it returned (none when it threw),
\* whether it took them from the pool, the entries it purged, and whether it
\* replaced the wrap data of a pooled wrapper by other data
Result(op, ok, ret, hit, purged, retargeted) ==
    [op |-> op, ok |-> ok, ret |-> ret, hit |-> hit, purged |-> purged,
     retargeted |-> retargeted]

NoResult == Result("none", TRUE, <<>>, FALSE, {}, FALSE)

\* no fetch with a wrapper key has been observed since the cache last changed
NoFetch == [on |-> TRUE, valid |-> FALSE, quiet |-> FALSE, result |-> {}]

\* fetches are not observed at all
FetchLogOff == [on |-> FALSE, valid |-> FALSE, quiet |-> FALSE, result |-> {}]

\* the record of the last wrapper-key fetch after a call that added or removed
\* entries (changed) or handed out, released, submitted or completed an image (used)
FlogAfter(f, changed, used) ==
    IF ~f.on
    THEN f
    ELSE IF ~f.valid \/ changed
    THEN NoFetch
    ELSE [f EXCEPT !.quiet = f.quiet /\ ~used]

\* the record after a call that began with a fetch of found by the wrapper key
FlogFetched(f, found, changed, used) ==
    IF ~f.on
    THEN f
    ELSE FlogAfter([on |-> TRUE, valid |-> TRUE, quiet |-> TRUE, result |-> found],
                   changed, used)

\* the image objects after the references of the identities in S were dropped:
\* an object nothing refers to any more is destroyed
Reap(images, S, c, h, f, v) ==
    [i \in 1..Len(images) |->
        IF i \in S /\ i \notin c /\ h[i] = 0 /\ f[i] = 0 /\ (\A t \in Threads : i \notin v[t])
        THEN Destroyed
        ELSE images[i]]

RECURSIVE Sum(_)
Sum(counts) == IF counts = <<>> THEN 0 ELSE Head(counts) + Sum(Tail(counts))

(***************************************************************************)
(* Image::Create, as one call of a single caller.                          *)
(***************************************************************************)
\* a slip: the pooled image is found but a new one is registered all the same
Create_AlwaysNew(size, fmt, rowAlign) ==
    LET n == Len(img) + 1
    IN  /\ Len(img) < MaxImages
        /\ img' = Append(img, OwnedImage(size, fmt, rowAlign))
        /\ cache' = cache \cup {n}
        /\ holders' = Append(holders, 1)
        /\ inflight' = Append(inflight, 0)
        /\ last' = Result("Create", TRUE, <<n>>, FALSE, {}, FALSE)
        /\ flog' = FlogAfter(flog, TRUE, TRUE)
        /\ UNCHANGED <<pc, vcont, req, call>>

Create(size, fmt, rowAlign) ==
    LET vcont0 == fetch(SizedKey(size, fmt))
    IN  /\ IF vcont0 = {}
           THEN LET n == Len(img) + 1
                IN  /\ Len(img) < MaxImages
                    /\ img' = Append(img, OwnedImage(size, fmt, rowAlign))
                    /\ cache' = cache \cup {n}
                    /\ holders' = Append(holders, 1)
                    /\ inflight' = Append(inflight, 0)
                    /\ last' = Result("Create", TRUE, <<n>>, FALSE, {}, FALSE)
                    /\ flog' = FlogAfter(flog, TRUE, TRUE)
           ELSE \E i \in vcont0 :
                    /\ holders' = [holders EXCEPT ![i] = @ + 1]
                    /\ last' = Result("Create", TRUE, <<i>>, TRUE, {}, FALSE)
                    /\ flog' = FlogAfter(flog, FALSE, TRUE)
                    /\ UNCHANGED <<img, cache, inflight>>
        /\ UNCHANGED <<pc, vcont, req, call>>

(***************************************************************************)
(* Image::WrapExternalBufferVector                                         *)
(***************************************************************************)
\* the call once the buffers were analysed and the pool was consulted
WrapVectorWith(buffers, imgData, pooled) ==
    /\ IF imgData.err # "none"
       THEN /\ last' = Result("WrapExternalBufferVector", FALSE, <<>>, FALSE, {}, FALSE)
            /\ UNCHANGED <<img, cache, holders, inflight, flog>>
       ELSE IF pooled = {}
       THEN LET c == WrapperImage(buffers, imgData)
                n == Len(img) + 1
            IN  IF ~c.ok
                THEN /\ last' = Result("WrapExternalBufferVector", FALSE, <<>>, FALSE, {}, FALSE)
                     /\ UNCHANGED <<img, cache, holders, inflight, flog>>
                ELSE /\ Len(img) < MaxImages
                     /\ img' = Append(img, c.image)
                     /\ cache' = cache \cup {n}
                     /\ holders' = Append(holders, 1)
                     /\ inflight' = Append(inflight, 0)
                     /\ last' = Result("WrapExternalBufferVector", TRUE, <<n>>, FALSE, {}, FALSE)
                     /\ flog' = FlogAfter(flog, TRUE, TRUE)
       ELSE \E i \in pooled :
                LET r == setWrapData(img[i], buffers, imgData)
                IN  /\ img' = [img EXCEPT ![i] = r.image]
                    /\ holders' = [holders EXCEPT ![i] = IF r.ok THEN @ + 1 ELSE @]
                    /\ last' = Result("WrapExternalBufferVector", r.ok,
                                      IF r.ok THEN <<i>> ELSE <<>>, r.ok, {},
                                      r.ok /\ r.image.obj # img[i].obj)
                    /\ flog' = FlogAfter(flog, FALSE, r.ok)
                    /\ UNCHANGED <<cache, inflight>>
    /\ UNCHANGED <<pc, vcont, req, call>>

\* a slip: the pooled wrapper is taken by key alone, in use or not
WrapExternalBufferVector_AnyWrapper(buffers, fmt) ==
    WrapVectorWith(buffers, CudaImageData(buffers, fmt),
                   {i \in cache : doIsCompatible(WrapperKey, KeyOf(img[i]))})

WrapExternalBufferVector(buffers, fmt) ==
    WrapVectorWith(buffers, CudaImageData(buffers, fmt),
                   fetch(WrapperKey))

(***************************************************************************)
(* Image::WrapExternalBufferMany                                           *)
(***************************************************************************)
WrapManyState(images, c, h, f, out, err, retargeted) ==
    [img |-> images, cache |-> c, holders |-> h, inflight |-> f, out |-> out, err |-> err,
     retargeted |-> retargeted]

RECURSIVE WrapManyLoop(_, _, _, _, _)
\* one turn of the loop, for buffer i whose strided data is imgData
WrapManyTurn(st, items, buffers, fmt, i, imgData) ==
    IF imgData.err # "none"
    THEN [st EXCEPT !.err = imgData.err]
    ELSE IF items = <<>>
    THEN WrapManyLoop(
             WrapManyState(Append(st.img, WrapperImage(<<buffers[i]>>, imgData).image),
                           st.cache \cup {Len(st.img) + 1}, Append(st.holders, 0),
                           Append(st.inflight, 0), Append(st.out, Len(st.img) + 1), st.err,
                           st.retargeted),
             items, buffers, fmt, i + 1)
    ELSE WrapManyLoop(
             [st EXCEPT !.img[items[Len(items)]] =
                            setWrapData(st.img[items[Len(items)]], <<buffers[i]>>, imgData).image,
                        !.out = Append(st.out, items[Len(items)]),
                        !.retargeted = st.retargeted
                                           \/ st.img[items[Len(items)]].obj # <<buffers[i]>>],
             SubSeq(items, 1, Len(items) - 1), buffers, fmt, i + 1)

\* the loop over the buffers from index i on; items is what is left of the fetched vector
WrapManyLoop(st, items, buffers, fmt, i) ==
    IF i > Len(buffers)
    THEN st
    ELSE WrapManyTurn(st, items, buffers, fmt, i, CudaImageData(<<buffers[i]>>, fmt))

\* the handles the returned vector gives the caller
HandOut(h, out) ==
    [i \in 1..Len(h) |-> h[i] + Cardinality({k \in 1..Len(out) : out[k] = i})]

\* the end of the call: st is what the loop left, found the fetched set
WrapManyDone(buffers, found, st) ==
    /\ Len(st.img) <= MaxImages
    /\ img' = st.img
    /\ cache' = st.cache
    /\ holders' = IF st.err = "none" THEN HandOut(st.holders, st.out) ELSE st.holders
    /\ inflight' = st.inflight
    /\ last' = Result("WrapExternalBufferMany", st.err = "none",
                      IF st.err = "none" THEN st.out ELSE <<>>,
                      st.err = "none" /\ found # {} /\ buffers # <<>>, {},
                      st.err = "none" /\ st.retargeted)
    /\ flog' = FlogFetched(flog, found, st.cache # cache, st.err = "none" /\ st.out # <<>>)
    /\ UNCHANGED <<pc, vcont, req, call>>

\* the call once the pool was consulted: found is the fetched set, items the
\* vector the loop pops from
WrapManyWith(buffers, fmt, found, items) ==
    WrapManyDone(buffers, found,
                 WrapManyLoop(WrapManyState(img, cache, holders, inflight, <<>>, "none", FALSE),
                              items, buffers, fmt, 1))

\* a slip: the fetched wrappers the loop did not pop stay referenced after the call
WrapExternalBufferMany_Leak(buffers, fmt) ==
    \E items \in VectorsOf(fetch(WrapperKey)) :
        WrapManyDone(buffers, fetch(WrapperKey),
                     WrapManyLoop(
                         WrapManyState(img, cache,
                                       [i \in 1..Len(holders) |->
                                           IF \E k \in 1..(Len(items) - Len(buffers)) :
                                                  items[k] = i
                                           THEN holders[i] + 1
                                           ELSE holders[i]],
                                       inflight, <<>>, "none", FALSE),
                         items, buffers, fmt, 1))

\* a slip: the fetched vector is read but never shortened, so one pooled wrapper
\* serves every buffer of the call
WrapExternalBufferMany_NoPop(buffers, fmt) ==
    \E items \in VectorsOf(fetch(WrapperKey)) :
        WrapManyWith(buffers, fmt, fetch(WrapperKey),
                     IF items = <<>> THEN items ELSE [k \in 1..Len(buffers) |-> items[1]])

WrapExternalBufferMany(buffers, fmt) ==
    \E items \in VectorsOf(fetch(WrapperKey)) :
        WrapManyWith(buffers, fmt, fetch(WrapperKey), items)

(***************************************************************************)
(* Image::CreateHostVector                                                 *)
(***************************************************************************)
\* the call once the host buffers were analysed: kept is what the purge leaves
CreateHostWith(imgData, rowAlign, kept) ==
    /\ IF imgData.err # "none"
       THEN /\ last' = Result("CreateHostVector", FALSE, <<>>, FALSE, {}, FALSE)
            /\ UNCHANGED <<img, cache, holders, inflight, flog>>
       ELSE LET purged == cache \ kept
                n      == Len(img) + 1
            IN  /\ Len(img) < MaxImages
                /\ img' = Append(Reap(img, purged, kept, holders, inflight, vcont),
                                 HostImage(imgData, rowAlign))
                /\ cache' = kept \cup {n}
                /\ holders' = Append(holders, 1)
                /\ inflight' = Append(inflight, 0)
                /\ last' = Result("CreateHostVector", TRUE, <<n>>, FALSE, purged, FALSE)
                /\ flog' = FlogAfter(flog, TRUE, TRUE)
    /\ UNCHANGED <<pc, vcont, req, call>>

\* a slip: every wrapper is purged, in use or not
CreateHostVector_PurgeAll(buffers, fmt, rowAlign) ==
    CreateHostWith(HostImageData(buffers, fmt), rowAlign,
                   {i \in cache : ~img[i].isWrapper})

CreateHostVector(buffers, fmt, rowAlign) ==
    CreateHostWith(HostImageData(buffers, fmt), rowAlign,
                   removeAllNotInUseMatching(WrapperKey))

(***************************************************************************)
(* The callers and the stream: handles are dropped, work on an image is    *)
(* submitted to a stream, which keeps a reference until the work is done.  *)
(***************************************************************************)
Release(i) ==
    /\ i \in Ids
    /\ holders[i] > 0
    /\ holders' = [holders EXCEPT ![i] = @ - 1]
    /\ img' = Reap(img, {i}, cache, holders', inflight, vcont)
    /\ last' = NoResult
    /\ flog' = FlogAfter(flog, FALSE, TRUE)
    /\ UNCHANGED <<cache, inflight, pc, vcont, req, call>>

Submit(i) ==
    /\ i \in Ids
    /\ holders[i] > 0
    /\ Sum(inflight) < MaxInFlight
    /\ inflight' = [inflight EXCEPT ![i] = @ + 1]
    /\ last' = NoResult
    /\ flog' = FlogAfter(flog, FALSE, TRUE)
    /\ UNCHANGED <<img, cache, holders, pc, vcont, req, call>>

Complete(i) ==
    /\ i \in Ids
    /\ inflight[i] > 0
    /\ inflight' = [inflight EXCEPT ![i] = @ - 1]
    /\ img' = Reap(img, {i}, cache, holders, inflight', vcont)
    /\ last' = NoResult
    /\ flog' = FlogAfter(flog, FALSE, TRUE)
    /\ UNCHANGED <<cache, holders, pc, vcont, req, call>>

(***************************************************************************)
(* The cache and a single caller.                                          *)
(***************************************************************************)
NoCall == [fn |-> "none"]

Init ==
    /\ img = <<>>
    /\ cache = {}
    /\ holders = <<>>
    /\ inflight = <<>>
    /\ pc = [t \in Threads |-> "idle"]
    /\ vcont = [t \in Threads |-> {}]
    /\ req = [t \in Threads |-> NoRequest]
    /\ last = NoResult
    /\ flog = FetchLogOff
    /\ call = NoCall

Next ==
    \/ \E r \in CreateArgs : Create(r.size, r.fmt, r.rowAlign)
    \/ \E buffers \in WrapVectorArgs : WrapExternalBufferVector(buffers, FMT_NONE)
    \/ \E buffers \in WrapManyArgs : WrapExternalBufferMany(buffers, FMT_NONE)
    \/ \E buffers \in CreateHostArgs : CreateHostVector(buffers, FMT_NONE, 0)
    \/ \E i \in Ids : Release(i)
    \/ \E i \in Ids : Submit(i)
    \/ \E i \in Ids : Complete(i)

Spec == Init /\ [][Next]_vars

(***************************************************************************)
(* Image::Create called by two threads: the fetch and the rest of the call *)
(* are the two steps another thread can come between.  The vector a thread *)
(* fetched holds references until the call returns.                        *)
(***************************************************************************)
\* running Create calls that fetched nothing and will construct an image
PendingMisses == Cardinality({t \in Threads : pc[t] = "fetched" /\ vcont[t] = {}})

\* the fetch of a Create call once the cache answered with found
CreateFetchWith(t, r, found) ==
    /\ pc[t] = "idle"
    /\ found # {} \/ Len(img) + PendingMisses < MaxImages
    /\ vcont' = [vcont EXCEPT ![t] = found]
    /\ pc' = [pc EXCEPT ![t] = "fetched"]
    /\ req' = [req EXCEPT ![t] = r]
    /\ last' = NoResult
    /\ UNCHANGED <<img, cache, holders, inflight, flog, call>>

\* a slip: the fetch answers by key alone, in use or not
CreateFetch_AnyMatching(t, r) ==
    CreateFetchWith(t, r, {i \in cache : doIsCompatible(SizedKey(r.size, r.fmt), KeyOf(img[i]))})

CreateFetch(t, r) == CreateFetchWith(t, r, fetch(SizedKey(r.size, r.fmt)))

CreateFinish(t) ==
    /\ pc[t] = "fetched"
    /\ IF vcont[t] = {}
       THEN LET n == Len(img) + 1
            IN  /\ img' = Append(img, OwnedImage(req[t].size, req[t].fmt, req[t].rowAlign))
                /\ cache' = cache \cup {n}
                /\ holders' = Append(holders, 1)
                /\ inflight' = Append(inflight, 0)
                /\ last' = Result("Create", TRUE, <<n>>, FALSE, {}, FALSE)
                /\ flog' = FlogAfter(flog, TRUE, TRUE)
       ELSE \E i \in vcont[t] :
                /\ holders' = [holders EXCEPT ![i] = @ + 1]
                /\ last' = Result("Create", TRUE, <<i>>, TRUE, {}, FALSE)
                /\ flog' = FlogAfter(flog, FALSE, TRUE)
                /\ UNCHANGED <<img, cache, inflight>>
    /\ vcont' = [vcont EXCEPT ![t] = {}]
    /\ pc' = [pc EXCEPT ![t] = "idle"]
    /\ req' = [req EXCEPT ![t] = NoRequest]
    /\ UNCHANGED call

NextThreads ==
    \/ \E t \in Threads, r \in CreateArgs : CreateFetch(t, r)
    \/ \E t \in Threads : CreateFinish(t)
    \/ \E i \in Ids : Release(i)

SpecThreads == Init /\ [][NextThreads]_vars

(***************************************************************************)
(* The cache and a single caller, with the wrapper-key fetches observed.   *)
(***************************************************************************)
InitFetch ==
    /\ img = <<>>
    /\ cache = {}
    /\ holders = <<>>
    /\ inflight = <<>>
    /\ pc = [t \in Threads |-> "idle"]
    /\ vcont = [t \in Threads |-> {}]
    /\ req = [t \in Threads |-> NoRequest]
    /\ last = NoResult
    /\ flog = NoFetch
    /\ call = NoCall

NextFetch ==
    \/ \E buffers \in FetchManyArgs : WrapExternalBufferMany(buffers, FMT_NONE)
    \/ \E buffers \in WrapVectorArgs : WrapExternalBufferVector(buffers, FMT_NONE)
    \/ \E buffers \in CreateHostArgs : CreateHostVector(buffers, FMT_NONE, 0)
    \/ \E i \in Ids : Release(i)
    \/ \E i \in Ids : Submit(i)
    \/ \E i \in Ids : Complete(i)

SpecFetch == InitFetch /\ [][NextFetch]_vars

(***************************************************************************)
(* Image::Key::doIsCompatible applied to two keys.                         *)
(***************************************************************************)
KeySizes == {<<0, 0>>, <<2, 2>>, <<4, 2>>}

KeyFormats == {FMT_NONE, FMT_U8, FMT_RGBA8}

Keys == {Key(w, s, f) : w \in BOOLEAN, s \in KeySizes, f \in KeyFormats}

InitKey ==
    /\ img = <<>>
    /\ cache = {}
    /\ holders = <<>>
    /\ inflight = <<>>
    /\ pc = [t \in Threads |-> "idle"]
    /\ vcont = [t \in Threads |-> {}]
    /\ req = [t \in Threads |-> NoRequest]
    /\ last = NoResult
    /\ flog = FetchLogOff
    /\ \E a \in Keys, b \in Keys :
           call = [fn |-> "doIsCompatible", this |-> a, that |-> b, done |-> FALSE,
                   res |-> FALSE]

IsCompatibleCall ==
    /\ call.fn = "doIsCompatible"
    /\ ~call.done
    /\ call' = [call EXCEPT !.done = TRUE, !.res = doIsCompatible(call.this, call.that)]
    /\ UNCHANGED cacheVars

NextKey == IsCompatibleCall

SpecKey == InitKey /\ [][NextKey]_vars

(***************************************************************************)
(* FillNVCVImageBufferStrided applied to a list of buffers.                *)
(***************************************************************************)
\* largest height and width of an analysed buffer
MaxExtent == 3
\* largest trailing extent of an analysed buffer
MaxTrailing == 6

\* rank 3 buffers of every shape: tightly packed, with padded rows, and with a
\* fastest axis that is not packed
Rank3Tensors ==
    {DLTensor(3, <<h, w, c>>, <<w * c + pad, c, inner>>, "UNSIGNED", bits, 1, 1000, "CUDA", 0) :
        h \in 1..MaxExtent, w \in 1..MaxExtent, c \in 1..MaxTrailing,
        pad \in {0, 1}, inner \in {1, 2}, bits \in {8, 16}}

\* rank 1 buffers of every length, packed or with a stride of two elements
Rank1Tensors ==
    {DLTensor(1, <<n>>, <<inner>>, "UNSIGNED", bits, 1, 1000, "CUDA", 0) :
        n \in 1..MaxTrailing, inner \in {1, 2}, bits \in {8, 16}}

\* rank 2 buffers of every shape: packed, with padded rows, with a fastest axis
\* that is not packed
Rank2Tensors ==
    {DLTensor(2, <<h, w>>, <<w + pad, inner>>, "UNSIGNED", bits, 1, 1000, "CUDA", 0) :
        h \in 1..MaxExtent, w \in 1..MaxExtent,
        pad \in {0, 1}, inner \in {1, 2}, bits \in {8, 16}}

\* buffers of rank 0 and of rank 5
OtherRankTensors ==
    {DLTensor(0, <<>>, <<>>, "UNSIGNED", 8, 1, 1000, "CUDA", 0)}
        \cup {DLTensor(5, <<1, 1, h, w, 1>>, <<h * w, h * w, w, 1, 1>>, "UNSIGNED", 8, 1, 1000,
                        "CUDA", 0) : h \in 1..MaxExtent, w \in 1..MaxExtent}

\* rank 3 buffers whose height or width stride may be zero or negative
StrideTensors ==
    {DLTensor(3, <<h, w, c>>, <<s1, s2, 1>>, "UNSIGNED", 8, 1, 1000, "CUDA", 0) :
        h \in 1..MaxExtent, w \in 1..MaxExtent, c \in {3, 5},
        s1 \in {-1, 0, 1}, s2 \in {-1, 0, 1}}

\* packed rank 3 buffers H x W x C
PackedTensor(h, w, c, kind, bits) ==
    DLTensor(3, <<h, w, c>>, <<w * c, c, 1>>, kind, bits, 1, 1000, "CUDA", 0)

\* the formats a caller declares
DeclaredFormats == {FMT_U8, FMT_2F32, FMT_RGB8, FMT_HSV8, FMT_RGBA8, FMT_NV12_ER}

\* one packed rank 3 buffer with a declared format
DeclaredInputs ==
    {<<<<PackedTensor(h, w, c, kind, bits)>>, fmt>> :
        h \in 1..2, w \in 1..2, c \in 1..4, kind \in {"UNSIGNED", "FLOAT"},
        bits \in {8, 32}, fmt \in DeclaredFormats}

\* the extents of the first buffer of a pair: even, so that its halves are whole
LumaExtents == {2, 4}

\* two packed rank 3 buffers, of 1 and of 2 channels, with or without the
\* declared luma/chroma format
TwoBufferInputs ==
    {<<<<PackedTensor(h1, w1, 1, "UNSIGNED", 8), PackedTensor(h2, w2, 2, kind, 8)>>, fmt>> :
        h1 \in LumaExtents, w1 \in LumaExtents, h2 \in 1..MaxExtent, w2 \in 1..MaxExtent,
        kind \in {"UNSIGNED", "FLOAT"}, fmt \in {FMT_NONE, FMT_NV12_ER}}

\* packed rank 4 buffers N x H x W x C, N = 0 included
Rank4Tensors ==
    {DLTensor(4, <<n, h, w, c>>, <<h * w * c, w * c, c, 1>>, "UNSIGNED", bits, 1, 1000, "CUDA", 0) :
        n \in 0..MaxExtent, h \in 1..2, w \in 1..2, c \in 1..2, bits \in {8, 16}}

\* a rank 4 buffer of two single-channel samples followed by a packed rank 3
\* buffer, with or without the declared luma/chroma format
SampleFirstInputs ==
    {<<<<DLTensor(4, <<2, h, w, 1>>, <<h * w, w, 1, 1>>, "UNSIGNED", 8, 1, 1000, "CUDA", 0),
         PackedTensor(h2, w2, c2, "UNSIGNED", 8)>>, fmt>> :
        h \in 1..2, w \in 1..2, h2 \in 1..2, w2 \in 1..2, c2 \in 1..2,
        fmt \in {FMT_NONE, FMT_NV12_ER}}

\* lists of one to five single-channel buffers of the same size
PlanarInputs ==
    {<<[i \in 1..k |-> PackedTensor(h, w, 1, IF i = odd THEN "FLOAT" ELSE "UNSIGNED", 8)],
       FMT_NONE>> :
        k \in 1..5, h \in 1..2, w \in 1..2, odd \in 0..2}

\* the buffer lists and declared formats the analysis is applied to
FillInputs ==
    {<<<<x>>, FMT_NONE>> :
        x \in Rank3Tensors \cup Rank1Tensors \cup Rank2Tensors \cup OtherRankTensors
                 \cup StrideTensors \cup Rank4Tensors}
        \cup DeclaredInputs \cup TwoBufferInputs \cup SampleFirstInputs \cup PlanarInputs
        \cup {<<<<>>, FMT_NONE>>}

InitFill ==
    /\ img = <<>>
    /\ cache = {}
    /\ holders = <<>>
    /\ inflight = <<>>
    /\ pc = [t \in Threads |-> "idle"]
    /\ vcont = [t \in Threads |-> {}]
    /\ req = [t \in Threads |-> NoRequest]
    /\ last = NoResult
    /\ flog = FetchLogOff
    /\ \E input \in FillInputs :
           call = [fn |-> "FillNVCVImageBufferStrided", infos |-> input[1], fmt |-> input[2],
                   done |-> FALSE, bufferInfoList |-> [err |-> "none", list |-> <<>>],
                   inferredFormat |-> NotInferred, imgData |-> NoImageData]

\* the call: bufferInfoList and inferredFormat are its locals of those names,
\* imgData what it fills in
FillCall ==
    /\ call.fn = "FillNVCVImageBufferStrided"
    /\ ~call.done
    /\ call' = [call EXCEPT !.done = TRUE,
                            !.bufferInfoList = ExtractBufferImageInfo(call.infos, call.fmt),
                            !.inferredFormat =
                                InferredFrom(ExtractBufferImageInfo(call.infos, call.fmt)),
                            !.imgData = FillNVCVImageBufferStrided(call.infos, call.fmt)]
    /\ UNCHANGED cacheVars

NextFill == FillCall

SpecFill == InitFill /\ [][NextFill]_vars

(***************************************************************************)
(* InferImageFormat applied to lists of plane element types.  The lists    *)
(* are those the normalisation lets through: one to four planes of one to  *)
(* four channels each, with no more than 4 channels in total (line 229).   *)
(***************************************************************************)
PlaneTypes ==
    {DataType(kind, bits, nch) :
        kind \in {"UNSIGNED", "SIGNED", "FLOAT"}, bits \in {8, 16}, nch \in 1..4}

PlaneTypeLists ==
    {l \in UNION {[1..k -> PlaneTypes] : k \in 1..4} : SumChannels(l) <= 4}

InitInfer ==
    /\ img = <<>>
    /\ cache = {}
    /\ holders = <<>>
    /\ inflight = <<>>
    /\ pc = [t \in Threads |-> "idle"]
    /\ vcont = [t \in Threads |-> {}]
    /\ req = [t \in Threads |-> NoRequest]
    /\ last = NoResult
    /\ flog = FetchLogOff
    /\ \E l \in PlaneTypeLists :
           call = [fn |-> "InferImageFormat", planePixTypes |-> l, done |-> FALSE,
                   res |-> [err |-> "none", format |-> FMT_NONE]]

InferCall ==
    /\ call.fn = "InferImageFormat"
    /\ ~call.done
    /\ call' = [call EXCEPT !.done = TRUE, !.res = InferImageFormat(call.planePixTypes)]
    /\ UNCHANGED cacheVars

NextInfer == InferCall

SpecInfer == InitInfer /\ [][NextInfer]_vars

(***************************************************************************)
(* Export of the strided image data as buffer descriptors (ToPyBufferInfo) *)
(* and their way back into FillNVCVImageBufferStrided.  A layout is the    *)
(* sequence of its axis labels; the strides of a descriptor are in bytes.  *)
(***************************************************************************)
\* ImageFormat::planeDataType(p), p counted from 0
planeDataType(fmt, p) == DataType(fmt.kind, fmt.packing[p + 1].bits, fmt.packing[p + 1].nch)

\* DataType::strideBytes()
strideBytes(dtype) == (dtype.bits * dtype.nch) \div 8

\* DataType::channelType(0)
channelType(dtype) == DataType(dtype.kind, dtype.bits, 1)

\* TensorLayout::find(label): the first position of the label, counted from 1,
\* and 0 where the source has -1
find(layout, label) ==
    IF \E i \in 1..Len(layout) : layout[i] = label
    THEN CHOOSE i \in 1..Len(layout) :
             /\ layout[i] = label
             /\ \A j \in 1..(i - 1) : layout[j] # label
    ELSE 0

\* a plausible slip: the spacing of the planes is not compared
singleBuffer_AnySpacing(imgData) ==
    \A p \in 2..Len(imgData.planes) :
        /\ imgData.planes[p].width = imgData.planes[1].width
        /\ imgData.planes[p].height = imgData.planes[1].height
        /\ imgData.planes[p].rowStride = imgData.planes[1].rowStride
        /\ planeDataType(imgData.format, 0).nch < 2
        /\ planeDataType(imgData.format, 0) = planeDataType(imgData.format, p - 1)

\* whether all planes go into one buffer
singleBuffer(imgData) ==
    \A p \in 2..Len(imgData.planes) :
        /\ imgData.planes[p].width = imgData.planes[1].width
        /\ imgData.planes[p].height = imgData.planes[1].height
        /\ imgData.planes[p].rowStride = imgData.planes[1].rowStride
        /\ planeDataType(imgData.format, 0).nch < 2
        /\ planeDataType(imgData.format, 0) = planeDataType(imgData.format, p - 1)
        /\ p >= 3 => imgData.planes[p].basePtr - imgData.planes[p - 1].basePtr
                         = imgData.planes[2].basePtr - imgData.planes[1].basePtr

\* a buffer descriptor: shape, byte strides, layout, element type and address
BufferInfo(shape, strides, layout, dtype, ptr) ==
    [shape |-> shape, strides |-> strides, layout |-> layout, dtype |-> dtype, ptr |-> ptr]

\* inferredShape, inferredStrides, inferredLayout and inferredDType of the
\* buffer of plane p, counted from 0, when there are numBuffers buffers
InferredBuffer(imgData, numBuffers, p) ==
    LET plane    == imgData.planes[p + 1]
        dtype    == planeDataType(imgData.format, p)
        planeBPP == strideBytes(dtype)
        nch      == planeNumChannels(imgData.format, p)
    IN  IF numBuffers = 1 /\ SwizzleNumChannels(imgData.format.swizzle) = 1
        THEN BufferInfo(<<plane.height, plane.width>>, <<plane.rowStride, planeBPP>>,
                        <<"H", "W">>, dtype, plane.basePtr)
        ELSE IF numBuffers = 1 /\ Len(imgData.planes) > 1
        THEN BufferInfo(<<Len(imgData.planes), plane.height, plane.width>>,
                        <<imgData.planes[2].basePtr - imgData.planes[1].basePtr,
                          plane.rowStride, planeBPP>>,
                        <<"C", "H", "W">>, dtype, plane.basePtr)
        ELSE BufferInfo(<<plane.height, plane.width, nch>>,
                        <<plane.rowStride, planeBPP, planeBPP \div nch>>,
                        <<"H", "W", "C">>, channelType(dtype), plane.basePtr)

\* a plausible slip: an axis that repeats the last inferred axis is let through
RECURSIVE FillUserLayout_RepeatOk(_, _, _, _, _, _)
FillUserLayout_RepeatOk(userLayout, i, idxLastInferDim, inferred, shape, strides) ==
    IF i > Len(userLayout)
    THEN [err |-> "none",
          info |-> BufferInfo(shape, strides, userLayout, inferred.dtype, inferred.ptr)]
    ELSE IF find(inferred.layout, userLayout[i]) = 0
    THEN FillUserLayout_RepeatOk(userLayout, i + 1, idxLastInferDim, inferred,
                                 Append(shape, 1), Append(strides, 0))
    ELSE IF idxLastInferDim > find(inferred.layout, userLayout[i])
    THEN [err |-> "RuntimeError", info |-> inferred]
    ELSE FillUserLayout_RepeatOk(userLayout, i + 1, find(inferred.layout, userLayout[i]),
                                 inferred,
                                 Append(shape, inferred.shape[find(inferred.layout, userLayout[i])]),
                                 Append(strides, inferred.strides[find(inferred.layout, userLayout[i])]))

\* the loop that fills the final shape and strides according to the user
\* layout, from its axis i on
RECURSIVE FillUserLayout(_, _, _, _, _, _)
FillUserLayout(userLayout, i, idxLastInferDim, inferred, shape, strides) ==
    IF i > Len(userLayout)
    THEN [err |-> "none",
          info |-> BufferInfo(shape, strides, userLayout, inferred.dtype, inferred.ptr)]
    ELSE IF find(inferred.layout, userLayout[i]) = 0
    THEN FillUserLayout(userLayout, i + 1, idxLastInferDim, inferred,
                        Append(shape, 1), Append(strides, 0))
    ELSE IF idxLastInferDim >= find(inferred.layout, userLayout[i])
    THEN [err |-> "RuntimeError", info |-> inferred]
    ELSE FillUserLayout(userLayout, i + 1, find(inferred.layout, userLayout[i]), inferred,
                        Append(shape, inferred.shape[find(inferred.layout, userLayout[i])]),
                        Append(strides, inferred.strides[find(inferred.layout, userLayout[i])]))

\* no layout requested
NoLayout == <<"none">>

\* the descriptor of one buffer under the layout the user asked for, if any
FinalBuffer(userLayout, inferred) ==
    IF userLayout = NoLayout
    THEN [err |-> "none", info |-> inferred]
    ELSE IF \E i \in 1..Len(inferred.layout) :
                inferred.shape[i] >= 2 /\ find(userLayout, inferred.layout[i]) = 0
    THEN [err |-> "RuntimeError", info |-> inferred]
    ELSE FillUserLayout(userLayout, 1, 0, inferred, <<>>, <<>>)

\* the inferred descriptors of all buffers
InferredBuffers(imgData) ==
    [b \in 1..(IF singleBuffer(imgData) THEN 1 ELSE Len(imgData.planes)) |->
        InferredBuffer(imgData, IF singleBuffer(imgData) THEN 1 ELSE Len(imgData.planes), b - 1)]

\* the loop over the buffers: the first that fails ends the export
ExportBuffers(userLayout, finals) ==
    IF \E b \in 1..Len(finals) : finals[b].err # "none"
    THEN [err |-> "RuntimeError", bufs |-> <<>>]
    ELSE [err |-> "none", bufs |-> [b \in 1..Len(finals) |-> finals[b].info]]

\* layoutOk is what TensorLayoutInfoImage::Create answers for the user layout
ToPyBufferInfo(imgData, userLayout, layoutOk) ==
    IF Len(imgData.planes) < 1
    THEN [err |-> "none", bufs |-> <<>>]
    ELSE IF userLayout # NoLayout /\ ~layoutOk
    THEN [err |-> "RuntimeError", bufs |-> <<>>]
    ELSE ExportBuffers(userLayout,
                       [b \in 1..Len(InferredBuffers(imgData)) |->
                           FinalBuffer(userLayout, InferredBuffers(imgData)[b])])

\* DLPackTensor(info, device): shape as given, strides counted in elements
ToDLPackTensor(info) ==
    DLTensor(Len(info.shape), info.shape,
             [i \in 1..Len(info.strides) |-> info.strides[i] \div strideBytes(info.dtype)],
             info.dtype.kind, info.dtype.bits, info.dtype.nch, info.ptr, "CUDA", 0)

\* three planes of one 8-bit channel each
FMT_RGB8p ==
    ImageFormat("RGB", "NONE", "UNSIGNED", "XYZ1", <<Packing(8, 1), Packing(8, 1), Packing(8, 1)>>)

\* the strided data of an image of the given format: rows of rowStride bytes in
\* plane 0, planes gap bytes apart, one more byte before the last plane if uneven
ImageDataOf(fmt, w, h, pad, gap, uneven) ==
    LET np  == numPlanes(fmt)
        pw(p)  == planeSize(fmt, <<w, h>>, p - 1)[1]
        ph(p)  == planeSize(fmt, <<w, h>>, p - 1)[2]
        row(p) == pw(p) * strideBytes(planeDataType(fmt, p - 1)) + pad
        step   == row(1) * h + gap
    IN  [format |-> fmt,
         planes |-> [p \in 1..np |->
                        ImagePlaneStrided(pw(p), ph(p), row(p),
                                          1000 + (p - 1) * step
                                               + (IF uneven /\ p = np /\ p > 1 THEN 1 ELSE 0))]]

\* the images exported
ExportImages ==
    {ImageDataOf(fmt, w, h, pad, gap, uneven) :
        fmt \in {FMT_U8, FMT_RGB8, FMT_RGBA8, FMT_RGB8p}, w \in 1..MaxExtent, h \in 1..2,
        pad \in {0, 1}, gap \in {0, 2}, uneven \in BOOLEAN}
    \cup {ImageDataOf(FMT_NV12_ER, w, h, pad, 0, FALSE) :
            w \in LumaExtents, h \in LumaExtents, pad \in {0, 2}}
    \cup {[ImageDataOf(FMT_RGB8p, w, h, 0, 2, FALSE) EXCEPT !.planes[2].rowStride = @ + 1] :
            w \in 1..MaxExtent, h \in 1..2}

\* the strided data of the images that wrap two packed single-channel buffers
\* of the same shape, given in either order of their addresses or twice
WrappedImages ==
    {[format |-> d.format, planes |-> d.planes] :
        d \in {CreateNVCVImageDataCuda(
                   <<[PackedTensor(h, w, 1, "UNSIGNED", 8) EXCEPT !.data = d1],
                     [PackedTensor(h, w, 1, "UNSIGNED", 8) EXCEPT !.data = d2]>>,
                   FMT_NONE) :
                   h \in 1..2, w \in 1..MaxExtent, d1 \in {1000, 1100}, d2 \in {1000, 1100}}}

\* the layouts a caller asks for
UserLayouts ==
    {NoLayout, <<"H", "W">>, <<"H", "W", "C">>, <<"C", "H", "W">>, <<"N", "H", "W", "C">>,
     <<"N", "C", "H", "W">>, <<"W", "H">>, <<"H", "C", "W">>, <<"H", "W", "C", "W">>,
     <<"H", "C">>}

NoExport == [err |-> "none", bufs |-> <<>>]

InitExport ==
    /\ img = <<>>
    /\ cache = {}
    /\ holders = <<>>
    /\ inflight = <<>>
    /\ pc = [t \in Threads |-> "idle"]
    /\ vcont = [t \in Threads |-> {}]
    /\ req = [t \in Threads |-> NoRequest]
    /\ last = NoResult
    /\ flog = FetchLogOff
    /\ \E imgData \in ExportImages \cup WrappedImages, userLayout \in UserLayouts,
          layoutOk \in BOOLEAN :
           /\ userLayout = NoLayout => layoutOk
           /\ call = [fn |-> "ToPyBufferInfo", imgData |-> imgData, userLayout |-> userLayout,
                      layoutOk |-> layoutOk, step |-> "export", inferred |-> <<>>,
                      out |-> NoExport, back |-> NoImageData, copies |-> <<>>]

\* the export: inferred holds the inferred descriptors, out what is returned
ExportCall ==
    /\ call.fn = "ToPyBufferInfo"
    /\ call.step = "export"
    /\ call' = [call EXCEPT !.step = "exported",
                            !.inferred = InferredBuffers(call.imgData),
                            !.out = ToPyBufferInfo(call.imgData, call.userLayout, call.layoutOk)]
    /\ UNCHANGED cacheVars

\* the descriptors exported with no requested layout are wrapped again, with
\* the format of the image as the declared format
ReingestCall ==
    /\ call.fn = "ToPyBufferInfo"
    /\ call.step = "exported"
    /\ call.userLayout = NoLayout
    /\ call.out.err = "none"
    /\ call' = [call EXCEPT !.step = "wrapped",
                            !.back = CreateNVCVImageDataCuda(
                                         [b \in 1..Len(call.out.bufs) |->
                                             ToDLPackTensor(call.out.bufs[b])],
                                         call.imgData.format)]
    /\ UNCHANGED cacheVars

\* the copies Image::cpu issues for one exported buffer, one per plane counted
\* from 1: source address and pitch on the device, offset and pitch in the
\* packed host array, bytes per row and rows
cpuCopies(devBufInfo) ==
    LET idxWidth      == find(devBufInfo.layout, "W")
        idxHeight     == find(devBufInfo.layout, "H")
        idxChannel    == find(devBufInfo.layout, "C")
        nplanes       == IF idxChannel = 0 \/ idxChannel = Len(devBufInfo.layout)
                         THEN 1
                         ELSE devBufInfo.shape[idxChannel]
        ncols         == devBufInfo.shape[idxWidth]
        nrows         == devBufInfo.shape[idxHeight]
        colStride     == devBufInfo.strides[idxWidth]
        devRowStride  == devBufInfo.strides[idxHeight]
        hostRowStride == colStride * ncols
    IN  [p \in 1..nplanes |->
            [src |-> devBufInfo.ptr + (p - 1) * (devRowStride * nrows), spitch |-> devRowStride,
             dst |-> (p - 1) * (hostRowStride * nrows), dpitch |-> hostRowStride,
             width |-> ncols * colStride, height |-> nrows]]

\* Image::cpu with no requested layout: the descriptors of the device buffers
\* are those of the export, copies holds the copies issued for each of them
CpuCall ==
    /\ call.fn = "ToPyBufferInfo"
    /\ call.step = "exported"
    /\ call.userLayout = NoLayout
    /\ call.out.err = "none"
    /\ call' = [call EXCEPT !.step = "copied",
                            !.copies = [b \in 1..Len(call.out.bufs) |->
                                           cpuCopies(call.out.bufs[b])]]
    /\ UNCHANGED cacheVars

NextExport == ExportCall \/ ReingestCall \/ CpuCall

SpecExport == InitExport /\ [][NextExport]_vars

(***************************************************************************)
(* nvcvAllocatorConstructCustom, as the allocator tests call it.  A        *)
(* function pointer of a resource allocator is TRUE when it is set, and a  *)
(* handle is 0 when it is null.  The context of the allocator at index i   *)
(* of the list is an integer that starts at 100 * i; its allocation        *)
(* function adds 1 to the integer its context argument points to, its free *)
(* function adds 10, and its cleanup function writes 0xDEAD there.         *)
(***************************************************************************)
MaxAllocators == 3
\* most references held on an allocator
MaxRefs == 2
\* most allocations of one resource type, and most of them not yet freed
MaxRequests == 2

ResourceTypes ==
    {"NVCV_RESOURCE_MEM_HOST", "NVCV_RESOURCE_MEM_CUDA", "NVCV_RESOURCE_MEM_HOST_PINNED"}

NVCVResourceAllocator(resType, fnAlloc, fnFree) ==
    [resType |-> resType, fnAlloc |-> fnAlloc, fnFree |-> fnFree]

\* the two allocators of the test invalid_arguments_api_calls
allocators ==
    <<NVCVResourceAllocator("NVCV_RESOURCE_MEM_HOST", TRUE, TRUE),
      NVCVResourceAllocator("NVCV_RESOURCE_MEM_CUDA", TRUE, TRUE)>>

\* the allocators of the test customAllocator_constructor_negative
invalidFnAllocAllocator == <<NVCVResourceAllocator("NVCV_RESOURCE_MEM_HOST", FALSE, TRUE)>>

invalidFnFreeAllocator == <<NVCVResourceAllocator("NVCV_RESOURCE_MEM_CUDA", TRUE, FALSE)>>

duplicatedResourceTypeAllocator ==
    <<NVCVResourceAllocator("NVCV_RESOURCE_MEM_HOST", TRUE, TRUE),
      NVCVResourceAllocator("NVCV_RESOURCE_MEM_HOST", TRUE, TRUE)>>

\* a plausible slip: a resource type that appears twice is let through
nvcvAllocatorConstructCustom_DuplicatesOk(customAllocators, hasHandle, live) ==
    IF ~hasHandle
    THEN [status |-> "NVCV_ERROR_INVALID_ARGUMENT", handle |-> 0, live |-> live]
    ELSE IF \E i \in 1..Len(customAllocators) :
                ~customAllocators[i].fnAlloc \/ ~customAllocators[i].fnFree
    THEN [status |-> "NVCV_ERROR_INVALID_ARGUMENT", handle |-> 0, live |-> live]
    ELSE [status |-> "NVCV_SUCCESS", handle |-> Cardinality(live) + 1,
          live |-> live \cup {Cardinality(live) + 1}]

\* nvcvAllocatorConstructCustom(customAllocators, numCustomAllocators, halloc):
\* hasHandle says whether halloc is not null, live is the set of the handles of
\* the allocators that exist; handle is what is stored through halloc
nvcvAllocatorConstructCustom(customAllocators, hasHandle, live) ==
    IF ~hasHandle
    THEN [status |-> "NVCV_ERROR_INVALID_ARGUMENT", handle |-> 0, live |-> live]
    ELSE IF \E i, j \in 1..Len(customAllocators) :
                i # j /\ customAllocators[i].resType = customAllocators[j].resType
    THEN [status |-> "NVCV_ERROR_INVALID_ARGUMENT", handle |-> 0, live |-> live]
    ELSE IF \E i \in 1..Len(customAllocators) :
                ~customAllocators[i].fnAlloc \/ ~customAllocators[i].fnFree
    THEN [status |-> "NVCV_ERROR_INVALID_ARGUMENT", handle |-> 0, live |-> live]
    ELSE [status |-> "NVCV_SUCCESS", handle |-> Cardinality(live) + 1,
          live |-> live \cup {Cardinality(live) + 1}]

\* the lists of resource allocators passed: those of the tests and every list
\* of up to MaxAllocators entries
AllocatorLists ==
    {allocators, invalidFnAllocAllocator, invalidFnFreeAllocator,
     duplicatedResourceTypeAllocator}
    \cup UNION {[1..k -> {NVCVResourceAllocator(t, a, f) :
                             t \in ResourceTypes, a \in BOOLEAN, f \in BOOLEAN}] :
                   k \in 0..MaxAllocators}

InitAlloc ==
    /\ img = <<>>
    /\ cache = {}
    /\ holders = <<>>
    /\ inflight = <<>>
    /\ pc = [t \in Threads |-> "idle"]
    /\ vcont = [t \in Threads |-> {}]
    /\ req = [t \in Threads |-> NoRequest]
    /\ last = NoResult
    /\ flog = FetchLogOff
    /\ \E l \in AllocatorLists, hasHandle \in BOOLEAN :
           call = [fn |-> "nvcvAllocatorConstructCustom", customAllocators |-> l,
                   hasHandle |-> hasHandle, done |-> FALSE, status |-> "none",
                   halloc |-> 0, live |-> {}, refCount |-> 0, ctx |-> <<>>,
                   cleanups |-> <<>>, invoked |-> <<>>, resType |-> "none",
                   pending |-> [t \in ResourceTypes |-> 0]]

\* the call: halloc is the caller's handle variable, null before the call
ConstructCustomCall ==
    /\ call.fn = "nvcvAllocatorConstructCustom"
    /\ ~call.done
    /\ LET r == nvcvAllocatorConstructCustom(call.customAllocators, call.hasHandle, call.live)
       IN  call' = [call EXCEPT !.done = TRUE,
                                !.status = r.status,
                                !.halloc = IF r.status = "NVCV_SUCCESS" THEN r.handle ELSE @,
                                !.live = r.live,
                                !.refCount = IF r.status = "NVCV_SUCCESS" THEN 1 ELSE 0,
                                !.ctx = IF r.status = "NVCV_SUCCESS"
                                        THEN [i \in 1..Len(call.customAllocators) |-> 100 * i]
                                        ELSE <<>>,
                                !.cleanups = IF r.status = "NVCV_SUCCESS"
                                             THEN [i \in 1..Len(call.customAllocators) |-> 0]
                                             ELSE <<>>]
    /\ UNCHANGED cacheVars

\* an allocation or free request of resType on the handle once the allocator
\* that serves it is known: i is its index in the list, 0 for the default
\* allocator; the custom function fnName is called with the context of
\* allocator i and adds delta to it, and dp more pointers are outstanding
MemoryRequest(fn, resType, i, fnName, delta, dp) ==
    /\ call' = [call EXCEPT !.fn = fn,
                            !.resType = resType,
                            !.status = "NVCV_SUCCESS",
                            !.pending[resType] = @ + dp,
                            !.ctx = IF i = 0 THEN @ ELSE [@ EXCEPT ![i] = @ + delta],
                            !.invoked = IF i = 0
                                        THEN <<>>
                                        ELSE <<[fn |-> fnName, alloc |-> i, ctx |-> i]>>]
    /\ UNCHANGED cacheVars

\* a plausible slip: every request goes to the first registered allocator
nvcvAllocatorAllocMemory_FirstAllocator(resType) ==
    /\ call.halloc # 0
    /\ call.refCount > 0
    /\ call.pending[resType] < MaxRequests
    /\ \A i \in 1..Len(call.customAllocators) :
           call.customAllocators[i].resType = resType
               => (call.ctx[i] - 100 * i) % 10 < MaxRequests
    /\ Len(call.customAllocators) > 0 => (call.ctx[1] - 100) % 10 < MaxRequests
    /\ MemoryRequest("nvcvAllocatorAllocMemory", resType,
                     IF Len(call.customAllocators) > 0 THEN 1 ELSE 0, "fnAlloc", 1, 1)

\* nvcvAllocatorAllocHostMemory, nvcvAllocatorAllocCudaMemory and
\* nvcvAllocatorAllocHostPinnedMemory on the handle
nvcvAllocatorAllocMemory(resType) ==
    /\ call.halloc # 0
    /\ call.refCount > 0
    /\ call.pending[resType] < MaxRequests
    /\ \A i \in 1..Len(call.customAllocators) :
           call.customAllocators[i].resType = resType
               => (call.ctx[i] - 100 * i) % 10 < MaxRequests
    /\ MemoryRequest("nvcvAllocatorAllocMemory", resType,
                     IF \E i \in 1..Len(call.customAllocators) :
                            call.customAllocators[i].resType = resType
                     THEN CHOOSE i \in 1..Len(call.customAllocators) :
                              call.customAllocators[i].resType = resType
                     ELSE 0,
                     "fnAlloc", 1, 1)

\* nvcvAllocatorFreeHostMemory, nvcvAllocatorFreeCudaMemory and
\* nvcvAllocatorFreeHostPinnedMemory on the handle, for a pointer it allocated
nvcvAllocatorFreeMemory(resType) ==
    /\ call.halloc # 0
    /\ call.refCount > 0
    /\ call.pending[resType] > 0
    /\ MemoryRequest("nvcvAllocatorFreeMemory", resType,
                     IF \E i \in 1..Len(call.customAllocators) :
                            call.customAllocators[i].resType = resType
                     THEN CHOOSE i \in 1..Len(call.customAllocators) :
                              call.customAllocators[i].resType = resType
                     ELSE 0,
                     "fnFree", 10, -1)

nvcvAllocatorIncRef ==
    /\ call.halloc # 0
    /\ call.refCount > 0
    /\ call.refCount < MaxRefs
    /\ call' = [call EXCEPT !.fn = "nvcvAllocatorIncRef",
                            !.resType = "none",
                            !.status = "NVCV_SUCCESS",
                            !.refCount = @ + 1,
                            !.invoked = <<>>]
    /\ UNCHANGED cacheVars

\* a plausible slip: the cleanup functions run at every release of a reference
nvcvAllocatorDecRef_CleanupEveryTime ==
    /\ call.halloc # 0
    /\ call.refCount > 0
    /\ call' = [call EXCEPT
                    !.fn = "nvcvAllocatorDecRef",
                    !.resType = "none",
                    !.status = "NVCV_SUCCESS",
                    !.refCount = @ - 1,
                    !.live = IF call.refCount = 1 THEN @ \ {call.halloc} ELSE @,
                    !.invoked = [i \in 1..Len(call.customAllocators) |->
                                    [fn |-> "cleanup", alloc |-> i, ctx |-> i]],
                    !.cleanups = [i \in 1..Len(call.customAllocators) |-> @[i] + 1],
                    !.ctx = [i \in 1..Len(call.customAllocators) |-> 57005]]
    /\ UNCHANGED cacheVars

\* nvcvAllocatorDecRef: the release of the last reference destroys the
\* allocator, which calls the cleanup function of each resource allocator with
\* that allocator's context and descriptor
nvcvAllocatorDecRef ==
    /\ call.halloc # 0
    /\ call.refCount > 0
    /\ call' = [call EXCEPT
                    !.fn = "nvcvAllocatorDecRef",
                    !.resType = "none",
                    !.status = "NVCV_SUCCESS",
                    !.refCount = @ - 1,
                    !.live = IF call.refCount = 1 THEN @ \ {call.halloc} ELSE @,
                    !.invoked = IF call.refCount = 1
                                THEN [i \in 1..Len(call.customAllocators) |->
                                         [fn |-> "cleanup", alloc |-> i, ctx |-> i]]
                                ELSE <<>>,
                    !.cleanups = IF call.refCount = 1
                                 THEN [i \in 1..Len(call.customAllocators) |-> @[i] + 1]
                                 ELSE @,
                    !.ctx = IF call.refCount = 1
                            THEN [i \in 1..Len(call.customAllocators) |-> 57005]
                            ELSE @]
    /\ UNCHANGED cacheVars

NextAlloc ==
    \/ ConstructCustomCall
    \/ \E resType \in ResourceTypes : nvcvAllocatorAllocMemory(resType)
    \/ \E resType \in ResourceTypes : nvcvAllocatorFreeMemory(resType)
    \/ nvcvAllocatorIncRef
    \/ nvcvAllocatorDecRef

SpecAlloc == InitAlloc /\ [][NextAlloc]_vars

(***************************************************************************)
(* NVCV_CHECK_THROW on the result of a CUDA call, as the error tests call   *)
(* it: with the error code alone, or with a format and its argument.  A    *)
(* format is the sequence of its pieces, "%s" standing for the argument.   *)
(***************************************************************************)
\* the CUDA error codes the macro is given
CudaErrors ==
    {"cudaSuccess", "cudaErrorInvalidValue", "cudaErrorMemoryAllocation",
     "cudaErrorInitializationError", "cudaErrorInvalidDevice", "cudaErrorTextureFetchFailed",
     "cudaErrorNotReady", "cudaErrorLaunchFailure", "cudaErrorNoDevice", "cudaErrorUnknown"}

\* a plausible slip: the code of a pending operation has no status of its own
NVCV_CHECK_THROW_NoNotReady(errCuda, hasExtra, fmt, arg) ==
    IF errCuda = "cudaSuccess"
    THEN [thrown |-> FALSE, status |-> "NVCV_SUCCESS", msg |-> <<>>]
    ELSE [thrown |-> TRUE,
          status |-> CASE errCuda = "cudaErrorMemoryAllocation" -> "NVCV_ERROR_OUT_OF_MEMORY"
                       [] errCuda = "cudaErrorInvalidValue" -> "NVCV_ERROR_INVALID_ARGUMENT"
                       [] OTHER -> "NVCV_ERROR_INTERNAL",
          msg |-> <<errCuda>>
                      \o (IF hasExtra
                          THEN [k \in 1..Len(fmt) |-> IF fmt[k] = "%s" THEN arg ELSE fmt[k]]
                          ELSE <<>>)]

\* NVCV_CHECK_THROW(errCuda) and NVCV_CHECK_THROW(errCuda, fmt, arg): whether
\* an exception is thrown, its status and the pieces of its message
NVCV_CHECK_THROW(errCuda, hasExtra, fmt, arg) ==
    IF errCuda = "cudaSuccess"
    THEN [thrown |-> FALSE, status |-> "NVCV_SUCCESS", msg |-> <<>>]
    ELSE [thrown |-> TRUE,
          status |-> CASE errCuda = "cudaErrorMemoryAllocation" -> "NVCV_ERROR_OUT_OF_MEMORY"
                       [] errCuda = "cudaErrorNotReady" -> "NVCV_ERROR_NOT_READY"
                       [] errCuda = "cudaErrorInvalidValue" -> "NVCV_ERROR_INVALID_ARGUMENT"
                       [] OTHER -> "NVCV_ERROR_INTERNAL",
          msg |-> <<errCuda>>
                      \o (IF hasExtra
                          THEN [k \in 1..Len(fmt) |-> IF fmt[k] = "%s" THEN arg ELSE fmt[k]]
                          ELSE <<>>)]

InitCheck ==
    /\ img = <<>>
    /\ cache = {}
    /\ holders = <<>>
    /\ inflight = <<>>
    /\ pc = [t \in Threads |-> "idle"]
    /\ vcont = [t \in Threads |-> {}]
    /\ req = [t \in Threads |-> NoRequest]
    /\ last = NoResult
    /\ flog = FetchLogOff
    /\ \E errCuda \in CudaErrors, hasExtra \in BOOLEAN,
          fmt \in {<<>>, <<" Extra String: ", "%s">>, <<"%s">>, <<"%s", " and ", "%s">>},
          arg \in {"", "abc", "x"} :
           /\ ~hasExtra => (fmt = <<>> /\ arg = "")
           /\ call = [fn |-> "NVCV_CHECK_THROW", errCuda |-> errCuda, hasExtra |-> hasExtra,
                      fmt |-> fmt, arg |-> arg, done |-> FALSE, thrown |-> FALSE,
                      status |-> "none", msg |-> <<>>]

\* the macro is evaluated: thrown, status and msg describe the exception
CheckThrowCall ==
    /\ call.fn = "NVCV_CHECK_THROW"
    /\ ~call.done
    /\ LET r == NVCV_CHECK_THROW(call.errCuda, call.hasExtra, call.fmt, call.arg)
       IN  call' = [call EXCEPT !.done = TRUE,
                                !.thrown = r.thrown,
                                !.status = r.status,
                                !.msg = r.msg]
    /\ UNCHANGED cacheVars

NextCheck == CheckThrowCall

SpecCheck == InitCheck /\ [][NextCheck]_vars

(***************************************************************************)
(* Properties of Image::Key::doIsCompatible.                               *)
(***************************************************************************)
\* C4: doIsCompatible(a, b) is TRUE when both keys are wrapper keys, FALSE when
\* exactly one of them is, and otherwise TRUE exactly when the two keys have
\* equal size and equal format; so the answer is the same with the keys swapped
\* and a wrapper key is never compatible with a sized key.
C4_KeyCompatibility ==
    (call.fn = "doIsCompatible" /\ call.done) =>
        /\ (call.this.isWrapper /\ call.that.isWrapper) => call.res
        /\ (call.this.isWrapper # call.that.isWrapper) => ~call.res
        /\ (~call.this.isWrapper /\ ~call.that.isWrapper) =>
               (call.res <=> (/\ call.this.size = call.that.size
                              /\ call.this.format = call.that.format))
        /\ call.res = doIsCompatible(call.that, call.this)

\* a wrapper key was compared with a sized key that carries the same size and
\* format, and the answer was FALSE
C4_Witness ==
    /\ call.fn = "doIsCompatible"
    /\ call.done
    /\ call.this.isWrapper
    /\ ~call.that.isWrapper
    /\ call.this.size = call.that.size
    /\ call.this.format = call.that.format
    /\ ~call.res

C1_InFlightWrapperKept ==
    [][\A i \in Ids :
           (img[i].isWrapper /\ inflight[i] > 0) =>
               /\ i \in cache
               /\ i \in cache'
               /\ img'[i] = img[i]]_vars

\* a host creation has just purged the wrappers, and a wrapper that no caller
\* holds but device work still uses is in the cache with its buffers
C1_Witness ==
    /\ last.op = "CreateHostVector"
    /\ last.ok
    /\ \E i \in Ids :
           /\ img[i].isWrapper
           /\ inflight[i] > 0
           /\ holders[i] = 0
           /\ i \in cache
           /\ img[i].obj # <<>>

\* C2: no image is held through two returned handles at once: a call never
\* returns an image that an earlier call returned and whose holder has not let go
\* of it; and the images one WrapExternalBufferMany call returns are pairwise
\* distinct.
C2_OneOwner ==
    /\ \A i \in Ids : holders[i] <= 1
    /\ \A a, b \in 1..Len(last.ret) : a # b => last.ret[a] # last.ret[b]
    /\ \A a \in 1..Len(last.ret) : holders[last.ret[a]] = 1

\* WrapExternalBufferMany has just returned two images, taking at least one
\* from the pool, while another image is held since an earlier call
C2_Witness ==
    /\ last.op = "WrapExternalBufferMany"
    /\ last.ok
    /\ last.hit
    /\ Len(last.ret) = 2
    /\ \E i \in Ids : holders[i] = 1 /\ \A a \in 1..2 : last.ret[a] # i

\* C5: a fetch with the wrapper key gives every cached wrapper that nothing
\* uses, whatever buffers it wraps, and no sized image; a fetch with a sized key
\* gives only unused images of exactly that size and format; with no match the
\* result is the empty set.
C5_FetchByKey ==
    /\ fetch(WrapperKey)
           = {i \in cache : /\ img[i].isWrapper
                            /\ holders[i] = 0
                            /\ inflight[i] = 0
                            /\ \A t \in Threads : i \notin vcont[t]}
    /\ \A r \in CreateArgs :
           /\ \A i \in fetch(SizedKey(r.size, r.fmt)) :
                  /\ i \in cache
                  /\ ~img[i].isWrapper
                  /\ img[i].size = r.size
                  /\ img[i].format = r.fmt
                  /\ holders[i] = 0
                  /\ inflight[i] = 0
           /\ (~\E i \in cache : ~img[i].isWrapper /\ img[i].size = r.size
                                    /\ img[i].format = r.fmt)
                  => fetch(SizedKey(r.size, r.fmt)) = {}

\* two unused wrappers of different buffers and an unused sized image are
\* cached: the wrapper key fetches both wrappers, a sized key of another size
\* fetches nothing
C5_Witness ==
    /\ \E i, j \in fetch(WrapperKey) : img[i].obj # img[j].obj
    /\ \E k \in cache : ~img[k].isWrapper /\ holders[k] = 0 /\ inflight[k] = 0
    /\ \E r \in CreateArgs : fetch(SizedKey(r.size, r.fmt)) = {}

\* C6: Image::Create(size, fmt, rowAlign) with an unused image of key
\* Sized{size, fmt} in the cache returns one of those images, constructs nothing
\* and leaves the cache as it is; otherwise it constructs one image, adds it to
\* the cache, which grows by one entry, and returns it.  Either way the image
\* returned has the requested size and format.
C6_CreateHitOrMiss ==
    [][\A r \in CreateArgs :
           Create(r.size, r.fmt, r.rowAlign) =>
               LET unused == {i \in cache : /\ ~img[i].isWrapper
                                            /\ img[i].size = r.size
                                            /\ img[i].format = r.fmt
                                            /\ holders[i] = 0
                                            /\ inflight[i] = 0}
               IN  /\ last'.ok
                   /\ Len(last'.ret) = 1
                   /\ IF unused # {}
                      THEN /\ last'.ret[1] \in unused
                           /\ Len(img') = Len(img)
                           /\ cache' = cache
                      ELSE /\ Len(img') = Len(img) + 1
                           /\ last'.ret[1] = Len(img')
                           /\ last'.ret[1] \notin cache
                           /\ cache' = cache \cup {last'.ret[1]}
                           /\ Cardinality(cache') = Cardinality(cache) + 1
                   /\ ~img'[last'.ret[1]].isWrapper
                   /\ img'[last'.ret[1]].size = r.size
                   /\ img'[last'.ret[1]].format = r.fmt]_vars

\* Create has just returned a pooled image while the cache holds two images
C6_Witness ==
    /\ last.op = "Create"
    /\ last.hit
    /\ Cardinality(cache) >= 2
    /\ holders[last.ret[1]] = 1

\* C7: WrapExternalBufferVector with valid buffers takes an unused cached
\* wrapper when there is one, gives it the wrap data of the buffers and returns
\* it, adding no cache entry; otherwise it constructs a wrapper, adds it to the
\* cache and returns it.  The image returned has the format, the planes and the
\* wrapped object of this call's buffers, and keeps them as long as it is held:
\* no step changes a wrapper a caller holds.
C7_WrapVectorRetargets ==
    [][/\ \A buffers \in WrapVectorArgs :
              (/\ WrapExternalBufferVector(buffers, FMT_NONE)
               /\ CudaImageData(buffers, FMT_NONE).err = "none"
               /\ \A k \in 1..Len(buffers) :
                      /\ Tensor(buffers[k]).devType = Tensor(buffers[1]).devType
                      /\ Tensor(buffers[k]).devId = Tensor(buffers[1]).devId) =>
                  LET unused == {i \in cache : /\ img[i].isWrapper
                                               /\ holders[i] = 0
                                               /\ inflight[i] = 0}
                      data   == CudaImageData(buffers, FMT_NONE)
                  IN  /\ last'.ok
                      /\ Len(last'.ret) = 1
                      /\ IF unused # {}
                         THEN /\ last'.ret[1] \in unused
                              /\ Len(img') = Len(img)
                              /\ cache' = cache
                         ELSE /\ Len(img') = Len(img) + 1
                              /\ last'.ret[1] = Len(img')
                              /\ cache' = cache \cup {last'.ret[1]}
                      /\ img'[last'.ret[1]].isWrapper
                      /\ img'[last'.ret[1]].obj = buffers
                      /\ img'[last'.ret[1]].format = data.format
                      /\ img'[last'.ret[1]].planes = data.planes
                      /\ holders'[last'.ret[1]] = 1
       /\ \A i \in Ids :
              (img[i].isWrapper /\ holders[i] > 0) => img'[i] = img[i]]_vars

\* WrapExternalBufferVector has just returned a pooled wrapper that wrapped
\* other buffers before
C7_Witness ==
    /\ last.op = "WrapExternalBufferVector"
    /\ last.ok
    /\ last.hit
    /\ last.retargeted
    /\ holders[last.ret[1]] = 1
    /\ img[last.ret[1]].obj # <<>>

\* C8: CreateHostVector with valid host buffers removes every wrapper nothing
\* uses from the cache, leaves the wrappers in use and every sized image there,
\* and constructs an image, never taking one from the pool, that has the size
\* and format of the host data and is added under the key Sized{size, format}.
C8_CreateHostPurges ==
    [][\A buffers \in CreateHostArgs :
           (/\ CreateHostVector(buffers, FMT_NONE, 0)
            /\ HostImageData(buffers, FMT_NONE).err = "none") =>
               LET stale == {i \in cache : /\ img[i].isWrapper
                                           /\ holders[i] = 0
                                           /\ inflight[i] = 0}
                   data  == HostImageData(buffers, FMT_NONE)
                   n     == Len(img) + 1
               IN  /\ last'.ok
                   /\ last'.ret = <<n>>
                   /\ Len(img') = n
                   /\ cache' = (cache \ stale) \cup {n}
                   /\ \A i \in cache : (~img[i].isWrapper \/ holders[i] > 0 \/ inflight[i] > 0)
                                           => (i \in cache' /\ img'[i] = img[i])
                   /\ ~img'[n].isWrapper
                   /\ img'[n].size = <<data.planes[1].width, data.planes[1].height>>
                   /\ img'[n].format = data.format
                   /\ KeyOf(img'[n]) = SizedKey(img'[n].size, img'[n].format)]_vars

\* a host creation has just purged an unused wrapper and kept a wrapper in use
C8_Witness ==
    /\ last.op = "CreateHostVector"
    /\ last.ok
    /\ last.purged # {}
    /\ \A i \in last.purged : i \notin cache
    /\ \E i \in cache : img[i].isWrapper /\ holders[i] > 0
    /\ last.ret[1] \in cache

(***************************************************************************)
(* Properties of Image::Create called by two threads.                      *)
(***************************************************************************)
\* C3: with two threads inside Image::Create, the vectors they fetched never
\* share an image, an image a thread fetched is held by nobody, no image is held
\* through two handles, so at most one thread gets a pooled image and the other
\* gets one it constructs; and every cache entry is an image that was fully
\* constructed and is not destroyed.
C3_ConcurrentCreate ==
    /\ \A t, u \in Threads : t # u => vcont[t] \cap vcont[u] = {}
    /\ \A t \in Threads : \A i \in vcont[t] : i \in cache /\ holders[i] = 0
    /\ \A i \in Ids : holders[i] <= 1
    /\ \A i \in cache : i \in Ids /\ img[i].devType # "destroyed"
    /\ Len(holders) = Len(img)
    /\ \A t \in Threads :
           pc[t] = "fetched" =>
               \A i \in vcont[t] : img[i].size = req[t].size /\ img[i].format = req[t].fmt

\* both threads are inside Create with the same size and format: one fetched
\* the only pooled image, the other fetched nothing and will construct one
C3_Witness ==
    /\ pc["t1"] = "fetched"
    /\ pc["t2"] = "fetched"
    /\ req["t1"] = req["t2"]
    /\ Cardinality(vcont["t1"]) = 1
    /\ vcont["t2"] = {}
    /\ Cardinality({i \in cache : img[i].size = req["t1"].size
                                      /\ img[i].format = req["t1"].fmt}) = 1

C11_AsStated ==
    (/\ call.fn = "FillNVCVImageBufferStrided"
     /\ call.done
     /\ Len(call.infos) = 1
     /\ call.fmt = FMT_NONE
     /\ call.infos[1].ndim = 3
     /\ call.infos[1].strides
            = <<call.infos[1].shape[2] * call.infos[1].shape[3], call.infos[1].shape[3], 1>>) =>
        LET h        == call.infos[1].shape[1]
            c        == call.infos[1].shape[3]
            channels == IF c <= 4 THEN c ELSE h
        IN  /\ (call.bufferInfoList.err = "InvalidArgument") <=> (channels > 4)
            /\ (c > 4 /\ h = 3) =>
                   /\ call.bufferInfoList.err = "none"
                   /\ call.bufferInfoList.list[1].numPlanes = 3

\* C12 as stated: a rank 1 buffer of length N gives one single-channel plane of
\* width N and height 1, a rank 2 buffer H x W one single-channel plane of width
\* W and height H, and a buffer of a rank outside 1..4 is rejected with
\* InvalidArgument (packed buffers, no declared format)
C12_AsStated ==
    (/\ call.fn = "FillNVCVImageBufferStrided"
     /\ call.done
     /\ Len(call.infos) = 1
     /\ call.fmt = FMT_NONE) =>
        LET t   == call.infos[1]
            ext == call.bufferInfoList
        IN  /\ (t.ndim = 1 /\ t.strides = <<1>>) =>
                   /\ ext.err = "none"
                   /\ ext.list[1].numPlanes = 1
                   /\ ext.list[1].numChannels = 1
                   /\ ext.list[1].size = <<t.shape[1], 1>>
            /\ (t.ndim = 2 /\ t.strides = <<t.shape[2], 1>>) =>
                   /\ ext.err = "none"
                   /\ ext.list[1].numPlanes = 1
                   /\ ext.list[1].numChannels = 1
                   /\ ext.list[1].size = <<t.shape[2], t.shape[1]>>
            /\ t.ndim \notin 1..4 => ext.err = "InvalidArgument"

\* C13: a rank 2 or rank 3 buffer with no declared format is rejected with
\* InvalidArgument when the stride of its height or width axis is not positive,
\* when the stride of its fastest axis is not the element size, or when it is
\* read channel-first and its row stride is not the element size times the
\* width; a channel-last buffer with positive strides and a packed fastest axis
\* is accepted when its rows are padded.
C13_StrideValidation ==
    (/\ call.fn = "FillNVCVImageBufferStrided"
     /\ call.done
     /\ Len(call.infos) = 1
     /\ call.fmt = FMT_NONE
     /\ call.infos[1].ndim \in {2, 3}) =>
        LET t   == call.infos[1]
            n   == t.ndim
            ext == call.bufferInfoList
            \* channel-first: every rank 2 buffer, a rank 3 buffer with C > 4
            chFirst == n = 2 \/ t.shape[3] > 4
            \* the row of a channel-first plane: axis n - 1, of t.shape[n] elements
            rowElems == t.strides[n - 1]
        IN  /\ (\E k \in 1..(n - 1) : t.strides[k] <= 0) => ext.err = "InvalidArgument"
            /\ t.strides[n] # 1 => ext.err = "InvalidArgument"
            /\ (chFirst /\ rowElems # t.shape[n]) => ext.err = "InvalidArgument"
            /\ (/\ ~chFirst
                /\ t.strides[3] = 1
                /\ t.strides[2] > 0
                /\ t.strides[1] >= t.shape[2] * t.shape[3]) =>
                   /\ ext.err = "none"
                   /\ ext.list[1].isChannelLast
                   /\ ext.list[1].rowStride = t.strides[1] * ((t.bits * t.lanes + 7) \div 8)

\* a channel-last buffer with padded rows was accepted
C13_Witness ==
    /\ call.fn = "FillNVCVImageBufferStrided"
    /\ call.done
    /\ call.fmt = FMT_NONE
    /\ Len(call.infos) = 1
    /\ call.infos[1].ndim = 3
    /\ call.infos[1].strides[1] > call.infos[1].shape[2] * call.infos[1].shape[3]
    /\ call.bufferInfoList.err = "none"
    /\ call.bufferInfoList.list[1].isChannelLast

(***************************************************************************)
(* Properties of the inference of the format.                              *)
(***************************************************************************)
\* C14: InferImageFormat on a list of one to four plane types fails with
\* InvalidArgument if a plane's data kind differs from that of plane 0.
\* Otherwise: with one plane, or with one channel in every plane, the result is
\* the base format of the total channel count (1 FMT_U8, 2 FMT_2F32, 3 FMT_RGB8,
\* 4 FMT_RGBA8) with the data kind and the planes' packings put in; else with 2
\* planes and 3 channels it is the 4:2:0 luma/chroma format; else it is a
\* format without colour model whose swizzle selects as many channels as the
\* planes have in total.  The result has one packing per input plane and as
\* many channels, by its packings and by its swizzle, as the input.
C14_InferImageFormat ==
    (call.fn = "InferImageFormat" /\ call.done) =>
        LET ts    == call.planePixTypes
            n     == Len(ts)
            total == SumChannels(ts)
            f     == call.res.format
            packs == [p \in 1..n |-> Packing(ts[p].bits, ts[p].nch)]
        IN  IF \E p \in 1..n : ts[p].kind # ts[1].kind
            THEN call.res.err = "InvalidArgument"
            ELSE /\ call.res.err = "none"
                 /\ f.kind = ts[1].kind
                 /\ f.packing = packs
                 /\ numPlanes(f) = n
                 /\ Sum([p \in 1..n |-> planeNumChannels(f, p - 1)]) = total
                 /\ SwizzleNumChannels(f.swizzle) = total
                 /\ IF n = 1 \/ \A p \in 1..n : ts[p].nch = 1
                    THEN /\ total = 1 => <<f.model, f.css, f.swizzle>> = <<"UNDEFINED", "NONE", "X000">>
                         /\ total = 2 => <<f.model, f.css, f.swizzle>> = <<"UNDEFINED", "NONE", "XY00">>
                         /\ total = 3 => <<f.model, f.css, f.swizzle>> = <<"RGB", "NONE", "XYZ1">>
                         /\ total = 4 => <<f.model, f.css, f.swizzle>> = <<"RGB", "NONE", "XYZW">>
                    ELSE IF n = 2 /\ total = 3
                    THEN <<f.model, f.css, f.swizzle>> = <<"YCbCr", "420", "XYZ0">>
                    ELSE f.model = "UNDEFINED" /\ f.css = "NONE"

\* InferImageFormat returned the luma/chroma format for two planes of 1 and 2
\* channels
C14_Witness ==
    /\ call.fn = "InferImageFormat"
    /\ call.done
    /\ Len(call.planePixTypes) = 2
    /\ call.planePixTypes[1].nch = 1
    /\ call.planePixTypes[2].nch = 2
    /\ call.res.err = "none"
    /\ call.res.format.css = "420"

(***************************************************************************)
(* Properties of the assembly of the strided image data.                   *)
(***************************************************************************)
\* C15: once the buffers are normalised and a format is inferred from their
\* planes, construction with a declared format succeeds exactly when the
\* declared and the inferred format have the same data kind, the same packing in
\* every plane and the same number of channels, and every plane has the size
\* the declared format gives it; the format of the image is then the declared
\* one, whatever its colour model.  With no declared format, the format of the
\* image is the inferred one.
C15_DeclaredFormat ==
    (/\ call.fn = "FillNVCVImageBufferStrided"
     /\ call.done
     /\ call.inferredFormat.err = "none") =>
        LET fmt      == call.fmt
            inferred == call.inferredFormat.format
            planes   == FlattenPlanes(call.bufferInfoList.list)
            final    == IF fmt # FMT_NONE THEN fmt ELSE inferred
            differ   == \/ fmt.kind # inferred.kind
                        \/ fmt.packing # inferred.packing
                        \/ SwizzleNumChannels(fmt.swizzle) # SwizzleNumChannels(inferred.swizzle)
            fit      == \A p \in 1..Len(planes) :
                            <<planes[p].width, planes[p].height>>
                                = planeSize(final, <<planes[1].width, planes[1].height>>, p - 1)
        IN  /\ (fmt # FMT_NONE /\ differ) => call.imgData.err = "InvalidArgument"
            /\ call.imgData.err = "none" <=> ((fmt = FMT_NONE \/ ~differ) /\ fit)
            /\ call.imgData.err = "none" => call.imgData.format = final

\* an image was built with the declared format FMT_HSV8 from a buffer whose
\* inferred format has another colour model
C15_Witness ==
    /\ call.fn = "FillNVCVImageBufferStrided"
    /\ call.done
    /\ call.fmt = FMT_HSV8
    /\ call.inferredFormat.err = "none"
    /\ call.inferredFormat.format.model = "RGB"
    /\ call.imgData.err = "none"
    /\ call.imgData.format = FMT_HSV8

\* C15 as the specification states it: with a declared format, construction
\* fails with InvalidArgument exactly when the declared and the inferred format
\* differ in data kind, packing or number of channels.
C15_AsStated ==
    (/\ call.fn = "FillNVCVImageBufferStrided"
     /\ call.done
     /\ call.fmt # FMT_NONE
     /\ call.inferredFormat.err = "none") =>
        (call.imgData.err = "InvalidArgument"
            <=> \/ call.fmt.kind # call.inferredFormat.format.kind
                \/ call.fmt.packing # call.inferredFormat.format.packing
                \/ SwizzleNumChannels(call.fmt.swizzle)
                       # SwizzleNumChannels(call.inferredFormat.format.swizzle))

\* C16: in every image built from buffers, each plane has the width and height
\* that planeSize of the image's format gives for the size of plane 0.  Two
\* packed buffers H1 x W1 x 1 and H2 x W2 x 2 of 8-bit unsigned elements, H1 and
\* W1 even, are accepted exactly when H2 = H1 / 2 and W2 = W1 / 2, and the image
\* then has the 4:2:0 luma/chroma format with 2 planes and 3 channels.
C16_PlaneSizes ==
    (call.fn = "FillNVCVImageBufferStrided" /\ call.done) =>
        LET out == call.imgData
            in1 == call.infos[1]
            in2 == call.infos[2]
        IN  /\ out.err = "none" =>
                   \A p \in 1..Len(out.planes) :
                       <<out.planes[p].width, out.planes[p].height>>
                           = planeSize(out.format,
                                       <<out.planes[1].width, out.planes[1].height>>, p - 1)
            /\ (/\ Len(call.infos) = 2
                /\ in1.ndim = 3
                /\ in2.ndim = 3
                /\ in1.shape[3] = 1
                /\ in2.shape[3] = 2
                /\ in1.kind = in2.kind) =>
                   /\ out.err = "none" <=> /\ 2 * in2.shape[1] = in1.shape[1]
                                           /\ 2 * in2.shape[2] = in1.shape[2]
                   /\ out.err # "none" => out.err = "InvalidArgument"
                   /\ out.err = "none" =>
                          /\ out.format.css = "420"
                          /\ Len(out.planes) = 2
                          /\ SwizzleNumChannels(out.format.swizzle) = 3
                          /\ <<out.planes[1].width, out.planes[1].height>>
                                 = <<in1.shape[2], in1.shape[1]>>
                          /\ <<out.planes[2].width, out.planes[2].height>>
                                 = <<in2.shape[2], in2.shape[1]>>

\* a pair of buffers 4 x 4 x 1 and 2 x 2 x 2 was accepted with no declared format
C16_Witness ==
    /\ call.fn = "FillNVCVImageBufferStrided"
    /\ call.done
    /\ call.fmt = FMT_NONE
    /\ Len(call.infos) = 2
    /\ call.infos[1].shape = <<4, 4, 1>>
    /\ call.infos[2].shape = <<2, 2, 2>>
    /\ call.imgData.err = "none"
    /\ call.imgData.format.css = "420"

\* C17: every image built from buffers has 1 to 4 planes, as many as its format
\* has, at most 4 channels over all planes, planes of the one data kind of its
\* format, and in plane 0 the width and height of the first buffer that gave a
\* plane; an empty list of buffers, and buffers that give no plane, are
\* rejected with InvalidArgument.
C17_BuiltImage ==
    (call.fn = "FillNVCVImageBufferStrided" /\ call.done) =>
        LET out   == call.imgData
            list  == call.bufferInfoList.list
            types == FlattenPlaneTypes(list)
            given == {b \in 1..Len(list) : list[b].numPlanes > 0}
        IN  /\ out.err = "none" =>
                   /\ Len(out.planes) \in 1..4
                   /\ Len(out.planes) = numPlanes(out.format)
                   /\ Len(out.planes) = Len(types)
                   /\ Sum([p \in 1..Len(types) |-> types[p].nch]) <= 4
                   /\ Sum([p \in 1..Len(types) |-> types[p].nch])
                          = SwizzleNumChannels(out.format.swizzle)
                   /\ \A p \in 1..Len(types) : types[p].kind = out.format.kind
                   /\ \E b \in given :
                          /\ \A o \in given : b <= o
                          /\ <<out.planes[1].width, out.planes[1].height>> = list[b].size
            /\ call.infos = <<>> => out.err = "InvalidArgument"
            /\ (call.bufferInfoList.err = "none" /\ given = {}) => out.err = "InvalidArgument"

\* an image of 4 planes was built from four single-channel buffers
C17_Witness ==
    /\ call.fn = "FillNVCVImageBufferStrided"
    /\ call.done
    /\ Len(call.infos) = 4
    /\ call.imgData.err = "none"
    /\ Len(call.imgData.planes) = 4

(***************************************************************************)
(* Properties of the export.                                               *)
(***************************************************************************)
\* C18 as the specification states it: the descriptors exported with no
\* requested layout, wrapped again with the format of the image as the declared
\* format, give an image of the same format whose planes have the same width,
\* height, row stride and address.
C18_AsStated ==
    (call.fn = "ToPyBufferInfo" /\ call.step = "wrapped") =>
        /\ call.back.err = "none"
        /\ call.back.format = call.imgData.format
        /\ call.back.planes = call.imgData.planes

\* the number of elements of a shape
RECURSIVE Product(_)
Product(shape) == IF shape = <<>> THEN 1 ELSE Head(shape) * Product(Tail(shape))

\* C19: an export with a requested layout that TensorLayoutInfoImage accepts
\* fails when an inferred axis of extent 2 or more is not in the requested
\* layout, and fails when two axes of the requested layout that are inferred
\* axes stand in another order than in the inferred layout or are the same
\* axis.  When it succeeds, every buffer has the requested layout, each
\* requested axis that is not an inferred axis has extent 1 and stride 0, each
\* other has the extent and stride of its inferred axis, and the shape has as
\* many elements as the inferred shape.
C19_RequestedLayout ==
    (/\ call.fn = "ToPyBufferInfo"
     /\ call.step = "exported"
     /\ call.userLayout # NoLayout
     /\ call.layoutOk) =>
        LET user == call.userLayout
            inf  == call.inferred
            pos(b, j) == find(inf[b].layout, user[j])
        IN  /\ (\E b \in 1..Len(inf) : \E i \in 1..Len(inf[b].layout) :
                    /\ inf[b].shape[i] >= 2
                    /\ \A j \in 1..Len(user) : user[j] # inf[b].layout[i])
                   => call.out.err # "none"
            /\ (\E b \in 1..Len(inf) : \E j1, j2 \in 1..Len(user) :
                    /\ j1 < j2
                    /\ pos(b, j1) > 0
                    /\ pos(b, j2) > 0
                    /\ pos(b, j1) >= pos(b, j2))
                   => call.out.err # "none"
            /\ call.out.err = "none" =>
                   /\ Len(call.out.bufs) = Len(inf)
                   /\ \A b \in 1..Len(inf) :
                          /\ call.out.bufs[b].layout = user
                          /\ Len(call.out.bufs[b].shape) = Len(user)
                          /\ \A j \in 1..Len(user) :
                                 IF pos(b, j) = 0
                                 THEN /\ call.out.bufs[b].shape[j] = 1
                                      /\ call.out.bufs[b].strides[j] = 0
                                 ELSE /\ call.out.bufs[b].shape[j] = inf[b].shape[pos(b, j)]
                                      /\ call.out.bufs[b].strides[j] = inf[b].strides[pos(b, j)]
                          /\ Product(call.out.bufs[b].shape) = Product(inf[b].shape)

\* a packed image of one plane was exported as NHWC: the axis N has extent 1
\* and stride 0
C19_Witness ==
    /\ call.fn = "ToPyBufferInfo"
    /\ call.step = "exported"
    /\ call.userLayout = <<"N", "H", "W", "C">>
    /\ call.imgData.format = FMT_RGB8
    /\ call.imgData.planes[1].width >= 2
    /\ call.out.err = "none"
    /\ call.out.bufs[1].shape[1] = 1
    /\ call.out.bufs[1].strides[1] = 0
    /\ call.out.bufs[1].shape[4] = 3

(***************************************************************************)
(* Properties of the construction of custom allocators.                    *)
(***************************************************************************)
\* C20: nvcvAllocatorConstructCustom returns NVCV_ERROR_INVALID_ARGUMENT and
\* no allocator comes to exist when the pointer to the output handle is null,
\* when two entries of the list have the same resource type, or when an entry
\* lacks its allocation or its free function; otherwise it returns NVCV_SUCCESS
\* and stores the non-null handle of a new allocator.  The calls of the tests
\* have the results the tests expect.
C20_ConstructCustom ==
    (call.fn = "nvcvAllocatorConstructCustom" /\ call.done) =>
        LET l   == call.customAllocators
            bad == \/ ~call.hasHandle
                   \/ \E i, j \in 1..Len(l) : i < j /\ l[i].resType = l[j].resType
                   \/ \E i \in 1..Len(l) : ~l[i].fnAlloc \/ ~l[i].fnFree
        IN  /\ bad => /\ call.status = "NVCV_ERROR_INVALID_ARGUMENT"
                      /\ call.live = {}
                      /\ call.halloc = 0
            /\ ~bad => /\ call.status = "NVCV_SUCCESS"
                       /\ call.halloc # 0
                       /\ call.live = {call.halloc}
            /\ (l = allocators /\ ~call.hasHandle) => call.status = "NVCV_ERROR_INVALID_ARGUMENT"
            /\ (l = allocators /\ call.hasHandle) =>
                   call.status = "NVCV_SUCCESS" /\ call.halloc # 0
            /\ (l \in {invalidFnAllocAllocator, invalidFnFreeAllocator,
                       duplicatedResourceTypeAllocator} /\ call.hasHandle) =>
                   call.status = "NVCV_ERROR_INVALID_ARGUMENT"

\* the list with the host memory type twice, both with their two functions,
\* was refused
C20_Witness ==
    /\ call.fn = "nvcvAllocatorConstructCustom"
    /\ call.done
    /\ call.hasHandle
    /\ call.customAllocators = duplicatedResourceTypeAllocator
    /\ call.status = "NVCV_ERROR_INVALID_ARGUMENT"
    /\ call.live = {}

(***************************************************************************)
(* Failed calls of Create, WrapExternalBufferVector, WrapExternalBufferMany *)
(* and CreateHostVector.                                                   *)
(***************************************************************************)
\* C24: a call that reports an error leaves the cache and every image object
\* exactly as they were before the call: no entry is added or removed and no
\* pooled wrapper is re-targeted or partly modified
C24_AsStated == [][~last'.ok => (cache' = cache /\ img' = img)]_vars

(***************************************************************************)
(* The row alignment of the image a Create call returns.                   *)
(***************************************************************************)
\* C28: the image a Create(size, fmt, rowAlign) call returns has a buffer laid
\* out for the row alignment requested in that call, newly constructed or taken
\* from the cache
C28_AsStated ==
    [][\A t \in Threads :
           (pc[t] = "fetched" /\ pc'[t] = "idle")
               => img'[last'.ret[1]].rowAlign = req[t].rowAlign]_vars

(***************************************************************************)
(* The units of the normalized strides.                                    *)
(***************************************************************************)
\* C29: for every accepted buffer of rank 3 or 4 the base address of plane p is
\* the data pointer plus p times the distance in bytes between consecutive
\* planes, which is the element stride of the buffer's plane axis times the
\* element size
C29_AsStated ==
    (/\ call.fn = "FillNVCVImageBufferStrided"
     /\ call.done
     /\ Len(call.infos) = 1
     /\ call.imgData.err = "none"
     /\ call.infos[1].ndim \in {3, 4})
        => LET tensor == call.infos[1]
               axis   == IF tensor.ndim = 4 /\ ~call.bufferInfoList.list[1].isChannelLast
                         THEN 2
                         ELSE 1
           IN  \A p \in 1..Len(call.imgData.planes) :
                   call.imgData.planes[p].basePtr
                       = tensor.data + (p - 1) * tensor.strides[axis] * elemStrideBytes(tensor)

(***************************************************************************)
(* The layout chosen for a buffer of rank 3 or 4.                          *)
(***************************************************************************)
\* C25: with a declared format a buffer of rank 3 or 4 is read channel-last
\* exactly when the channel count the declared format has at the plane this
\* buffer supplies (the number of planes the earlier buffers supplied) equals
\* the buffer's trailing extent; with no declared format exactly when the
\* trailing extent is at most 4
C25_AsStated ==
    (/\ call.fn = "FillNVCVImageBufferStrided"
     /\ call.done
     /\ call.bufferInfoList.err = "none")
        => \A b \in 1..Len(call.infos) :
               call.infos[b].ndim \in {3, 4}
                   => LET list     == call.bufferInfoList.list
                          plane    == Sum([k \in 1..(b - 1) |-> list[k].numPlanes])
                          trailing == call.infos[b].shape[call.infos[b].ndim]
                      IN  list[b].isChannelLast
                              <=> IF call.fmt # FMT_NONE
                                  THEN planeNumChannels(call.fmt, plane) = trailing
                                  ELSE trailing <= 4

C30_AsStated ==
    (/\ call.fn = "ToPyBufferInfo"
     /\ call.step # "export"
     /\ call.userLayout = NoLayout
     /\ Len(call.inferred) = 1
     /\ call.inferred[1].layout = <<"C", "H", "W">>)
        => call.imgData.planes[2].basePtr - call.imgData.planes[1].basePtr > 0

(***************************************************************************)
(* The device addresses Image::cpu copies from.                            *)
(***************************************************************************)
\* C27: Image::cpu copies, for every plane of every exported buffer, from the
\* base address of the image plane it stands for: plane p of a single buffer
\* is image plane p, and the only plane of buffer b of several is image plane b
C27_AsStated ==
    (call.fn = "ToPyBufferInfo" /\ call.step = "copied")
        => LET planes == call.imgData.planes
           IN  IF Len(call.copies) = 1
               THEN \A p \in 1..Len(call.copies[1]) :
                        call.copies[1][p].src = planes[p].basePtr
               ELSE \A b \in 1..Len(call.copies) :
                        call.copies[b][1].src = planes[b].basePtr

(***************************************************************************)
(* The life of a custom allocator and the dispatch of its requests.        *)
(***************************************************************************)
\* C21: a custom allocator has reference count 1 right after its construction;
\* the release that brings the count to 0 calls the cleanup function of every
\* registered resource allocator exactly once, with that allocator's own
\* context and descriptor, and nothing is requested through the handle
\* afterwards; no cleanup function is called while the count is positive
C21_Lifetime ==
    [][LET l == call.customAllocators
       IN  /\ (/\ call.fn = "nvcvAllocatorConstructCustom"
               /\ ~call.done
               /\ call'.status = "NVCV_SUCCESS")
                  => call'.refCount = 1
           /\ call'.refCount > 0
                  => /\ \A i \in 1..Len(l) : call'.cleanups[i] = 0
                     /\ \A k \in 1..Len(call'.invoked) : call'.invoked[k].fn # "cleanup"
           /\ (call.refCount > 0 /\ call'.refCount = 0)
                  => /\ call.refCount = 1
                     /\ call'.fn = "nvcvAllocatorDecRef"
                     /\ Len(call'.invoked) = Len(l)
                     /\ \A i \in 1..Len(l) :
                            /\ call'.cleanups[i] = 1
                            /\ Cardinality({k \in 1..Len(call'.invoked) :
                                                call'.invoked[k].alloc = i}) = 1
                            /\ \A k \in 1..Len(call'.invoked) :
                                   call'.invoked[k].alloc = i
                                       => /\ call'.invoked[k].fn = "cleanup"
                                          /\ call'.invoked[k].ctx = i
           /\ (call.halloc # 0 /\ call.refCount = 0) => call' = call]_vars

\* the allocator of the test CreateAndUseCustom was destroyed by the release
\* of its last reference after allocations and frees of host and CUDA memory
C21_Witness ==
    /\ call.fn = "nvcvAllocatorDecRef"
    /\ call.customAllocators = allocators
    /\ call.refCount = 0
    /\ call.cleanups = <<1, 1>>
    /\ call.ctx = <<57005, 57005>>
    /\ call.pending = [t \in ResourceTypes |-> 0]

C23_CheckThrow ==
    (call.fn = "NVCV_CHECK_THROW" /\ call.done)
        => /\ call.thrown <=> call.errCuda # "cudaSuccess"
           /\ call.errCuda = "cudaErrorMemoryAllocation"
                  => call.status = "NVCV_ERROR_OUT_OF_MEMORY"
           /\ call.errCuda = "cudaErrorNotReady" => call.status = "NVCV_ERROR_NOT_READY"
           /\ call.errCuda = "cudaErrorInvalidValue"
                  => call.status = "NVCV_ERROR_INVALID_ARGUMENT"
           /\ call.errCuda = "cudaErrorTextureFetchFailed"
                  => call.status = "NVCV_ERROR_INTERNAL"

\* as in the test throw_with_extra_string: the texture fetch error with an
\* extra message was thrown as an internal error
C23_Witness ==
    /\ call.fn = "NVCV_CHECK_THROW"
    /\ call.done
    /\ call.errCuda = "cudaErrorTextureFetchFailed"
    /\ call.hasExtra
    /\ call.fmt = <<" Extra String: ", "%s">>
    /\ call.arg = "abc"
    /\ call.thrown
    /\ call.status = "NVCV_ERROR_INTERNAL"
    /\ call.msg = <<"cudaErrorTextureFetchFailed", " Extra String: ", "abc">>
====
